---- MODULE Spec2Model ----
(***************************************************************************)
(* api-pulse: snapshot store, webhook handler (correlation resolver) and   *)
(* the periodic synchronisation service (reconciliation orchestrator).     *)
(*                                                                         *)
(* Go strings are sequences of one-character strings, so that Split,       *)
(* TrimPrefix, ToLower and Sprintf are computed as the code computes them. *)
(* Go maps are functions whose DOMAIN is the set of keys present.          *)
(***************************************************************************)
EXTENDS Integers, Sequences, FiniteSets, TLC

VARIABLES
    apisByKey,      \* ApiStore.apisByKey : ApiKey -> StoredApiInfo
    apisByPath,     \* ApiStore.apisByPath : "<method> <path>" -> StoredApiInfo
    lastOp,         \* the last call from outside (a store operation or a
                    \* webhook request), its arguments and result
    catalog,        \* the remote catalog: entity id -> current shape
    edits,          \* number of upstream edits made so far
    isSyncRunning,  \* ApiService.isSyncRunning
    stopSync,       \* ApiService.stopSync: identity of the current channel
    closed,         \* the stop channels that have been closed
    loops,          \* the timer-loop goroutines StartSync has created
    sweeps,         \* the SyncAllAPIs invocations, one record per sweep
    panicked,       \* a close of a closed channel has panicked
    hooks,          \* the HandleWebhook invocations, one record per request
    sent,           \* the notifications the notifier has delivered, in order
    fetched         \* per entity id: the details successful fetches returned

storeVars == <<apisByKey, apisByPath>>
vars == <<apisByKey, apisByPath, lastOp, catalog, edits, isSyncRunning,
          stopSync, closed, loops, sweeps, panicked, hooks, sent, fetched>>

(***************************************************************************)
(* Strings                                                                 *)
(***************************************************************************)
Empty == <<>>
SP == " "

GET    == <<"G", "E", "T">>
get    == <<"g", "e", "t">>
post   == <<"p", "o", "s", "t">>
PUser  == <<"/", "u", "s", "e", "r">>
PUsers == <<"/", "u", "s", "e", "r", "s">>

\* unicode.ToLower on the letters the model uses
LowerChar(c) ==
    CASE c = "G" -> "g"
      [] c = "E" -> "e"
      [] c = "T" -> "t"
      [] c = "P" -> "p"
      [] c = "O" -> "o"
      [] c = "S" -> "s"
      [] OTHER -> c

\* strings.ToLower
ToLower(s) == [i \in 1..Len(s) |-> LowerChar(s[i])]

\* strings.HasPrefix
HasPrefix(s, p) == Len(p) <= Len(s) /\ SubSeq(s, 1, Len(p)) = p

\* strings.TrimPrefix
TrimPrefix(s, p) == IF HasPrefix(s, p) THEN SubSeq(s, Len(p) + 1, Len(s)) ELSE s

\* strings.TrimSpace
RECURSIVE TrimLeft(_)
TrimLeft(s) == IF s # Empty /\ Head(s) = SP THEN TrimLeft(Tail(s)) ELSE s
RECURSIVE TrimRight(_)
TrimRight(s) ==
    IF s # Empty /\ s[Len(s)] = SP THEN TrimRight(SubSeq(s, 1, Len(s) - 1)) ELSE s
TrimSpace(s) == TrimRight(TrimLeft(s))

\* strings.Split(s, " "): one field per separator, empty fields kept
RECURSIVE SplitFrom(_, _)
SplitFrom(s, cur) ==
    IF s = Empty THEN <<cur>>
    ELSE IF Head(s) = SP THEN <<cur>> \o SplitFrom(Tail(s), Empty)
    ELSE SplitFrom(Tail(s), Append(cur, Head(s)))
Split(s) == SplitFrom(s, Empty)

\* fmt.Sprintf("%s %s", a, b)
Sprintf2(a, b) == a \o <<SP>> \o b

(***************************************************************************)
(* Snapshot store (package storage)                                        *)
(***************************************************************************)
\* fmt.Sprintf("%d", id) for the identifiers the model uses
Itoa(id) ==
    CASE id = 0 -> "0"
      [] id = 1 -> "1"
      [] id = 2 -> "2"
      [] id = 3 -> "3"
      [] id = 4 -> "4"
      [] id = 5 -> "5"
      [] id = 6 -> "6"
      [] id = 7 -> "7"
      [] id = 8 -> "8"
      [] OTHER -> "9"

\* fmt.Sprintf("apiDetail.%d", id)
ApiKeyOf(id) == <<"apiDetail.", Itoa(id)>>

\* the zero value of ApiDetail
ZeroDetail ==
    [ID |-> 0, Name |-> Empty, Method |-> Empty, Path |-> Empty,
     ResponsibleID |-> 0, RequestBody |-> "null", Parameters |-> "null",
     Responses |-> "null"]

\* the zero value of StoredApiInfo, which a lookup of an absent map key yields
ZeroApiInfo ==
    [ApiKey |-> Empty, ApiID |-> 0, Name |-> Empty, Method |-> Empty,
     ApiPath |-> Empty, Detail |-> ZeroDetail]

NotFound == [found |-> FALSE, api |-> ZeroApiInfo]
Found(a) == [found |-> TRUE, api |-> a]

\* lookup in a Go map: value and presence
MapGet(m, k) == IF k \in DOMAIN m THEN Found(m[k]) ELSE NotFound

\* m[k] = v
MapPut(m, k, v) == [x \in DOMAIN m \cup {k} |-> IF x = k THEN v ELSE m[x]]

\* delete(m, k)
MapDelete(m, k) == [x \in DOMAIN m \ {k} |-> m[x]]

EmptyMap == <<>>

\* SaveApi with the eviction of the old path key left out
SaveApiNoEvict(byKey, byPath, apiInfo) ==
    [byKey  |-> MapPut(byKey, apiInfo.ApiKey, apiInfo),
     byPath |-> IF apiInfo.ApiPath # Empty
                THEN MapPut(byPath, Sprintf2(apiInfo.Method, apiInfo.ApiPath), apiInfo)
                ELSE byPath]

\* a SaveApi that keeps the path index unique by dropping the snapshot of
\* another stable key that held the new path key
SaveApiDropsPathOwner(byKey, byPath, apiInfo) ==
    LET old == MapGet(byKey, apiInfo.ApiKey)
        evict == /\ old.found
                 /\ old.api.ApiPath # Empty
                 /\ (old.api.Method # apiInfo.Method \/ old.api.ApiPath # apiInfo.ApiPath)
        byPath1 == IF evict
                   THEN MapDelete(byPath, Sprintf2(old.api.Method, old.api.ApiPath))
                   ELSE byPath
        owner == MapGet(byPath1, Sprintf2(apiInfo.Method, apiInfo.ApiPath))
        byKey1 == IF owner.found /\ owner.api.ApiKey # apiInfo.ApiKey
                  THEN MapDelete(byKey, owner.api.ApiKey)
                  ELSE byKey
    IN [byKey  |-> MapPut(byKey1, apiInfo.ApiKey, apiInfo),
        byPath |-> IF apiInfo.ApiPath # Empty
                   THEN MapPut(byPath1, Sprintf2(apiInfo.Method, apiInfo.ApiPath), apiInfo)
                   ELSE byPath1]

\* ApiStore.SaveApi: the two indices after the call
SaveApi(byKey, byPath, apiInfo) ==
    LET old == MapGet(byKey, apiInfo.ApiKey)
        evict == /\ old.found
                 /\ old.api.ApiPath # Empty
                 /\ (old.api.Method # apiInfo.Method \/ old.api.ApiPath # apiInfo.ApiPath)
        byPath1 == IF evict
                   THEN MapDelete(byPath, Sprintf2(old.api.Method, old.api.ApiPath))
                   ELSE byPath
    IN [byKey  |-> MapPut(byKey, apiInfo.ApiKey, apiInfo),
        byPath |-> IF apiInfo.ApiPath # Empty
                   THEN MapPut(byPath1, Sprintf2(apiInfo.Method, apiInfo.ApiPath), apiInfo)
                   ELSE byPath1]

\* ApiStore.GetApi
GetApi(byKey, apiKey) == MapGet(byKey, apiKey)

\* ApiStore.GetApiByPath
GetApiByPath(byPath, method, path) == MapGet(byPath, Sprintf2(method, path))

\* ApiStore.GetAllApis: a copy of the stable-key index
GetAllApis(byKey) == [k \in DOMAIN byKey |-> byKey[k]]

(***************************************************************************)
(* The remote catalog and the client calls (package apifox, client.go)     *)
(***************************************************************************)
\* fmt.Sscanf(apiKey, "apiDetail.%s", &apiID): the identifier inside a key
IdOfKey(apiKey) == CHOOSE i \in 0..9 : Itoa(i) = apiKey[2]

\* ApifoxConfig.ResponsibleId: the owner the handler notifies for
ConfigResponsibleId == 100

\* the owner the catalog records for an entity, as the fetched detail carries it
ResponsibleIDOf(e) == e.ResponsibleID

\* Client.GetApiDetail, successful response: the detail built from the data
DetailOf(id, e) ==
    [ID |-> id, Name |-> e.Name, Method |-> e.Method, Path |-> e.Path,
     ResponsibleID |-> ResponsibleIDOf(e), RequestBody |-> e.RequestBody,
     Parameters |-> e.Parameters, Responses |-> e.Responses]

\* Client.GetApiDetail: outcome "err" is a returned error, "empty" a response
\* whose data is the empty object, "ok" the entity as the catalog holds it
GetApiDetail(cat, apiKey, outcome) ==
    IF outcome = "err" \/ IdOfKey(apiKey) \notin DOMAIN cat
    THEN [err |-> TRUE, Success |-> FALSE, Data |-> ZeroDetail]
    ELSE IF outcome = "empty"
    THEN [err |-> FALSE, Success |-> TRUE, Data |-> ZeroDetail]
    ELSE [err |-> FALSE, Success |-> TRUE,
          Data |-> DetailOf(IdOfKey(apiKey), cat[IdOfKey(apiKey)])]

\* the "api" object of a tree item
ApiBasicOf(id, e) == [ID |-> id, Name |-> e.Name, Method |-> e.Method, Path |-> e.Path]

ZeroApiBasic == [ID |-> 0, Name |-> Empty, Method |-> Empty, Path |-> Empty]

FolderItem ==
    [Key |-> <<"apiDetailFolder.", "1">>, Type |-> "apiDetailFolder",
     Name |-> <<"f">>, api |-> ZeroApiBasic]

\* Client.GetApiTreeList, successful response: a folder, then one item per entity
TreeOf(cat) ==
    <<FolderItem>> \o
    [i \in 1..Cardinality(DOMAIN cat) |->
        [Key |-> ApiKeyOf(i), Type |-> "apiDetail", Name |-> cat[i].Name,
         api |-> ApiBasicOf(i, cat[i])]]

\* ApiService.ExtractApiItems: the items that have a key and a type
ExtractApiItems(tree) ==
    LET Keep(it) == it.Key # Empty /\ it.Type # ""
    IN SelectSeq(tree, Keep)

\* the filter of SyncAllAPIs and InitializeApiList: apiDetail items with a key
ValidApiItems(items) ==
    LET Keep(it) == it.Type = "apiDetail" /\ it.Key # Empty
    IN SelectSeq(items, Keep)

\* isEmptyApiDetail
isEmptyApiDetail(detail) ==
    detail.ID = 0 /\ detail.Name = Empty /\ detail.Path = Empty /\ detail.Method = Empty

(***************************************************************************)
(* Diff engine: the five flags of CompareApis                              *)
(***************************************************************************)
\* json.Marshal of a request body, parameter set or response list: the model
\* holds each of them as the text of its serialisation
Marshal(x) == <<"json", x>>

CompareApisNoPath(oldApi, newApi) ==
    [ApiID |-> newApi.ID, ApiKey |-> ApiKeyOf(newApi.ID), Name |-> newApi.Name,
     Method |-> newApi.Method, OldMethod |-> oldApi.Method,
     OldPath |-> oldApi.Path, NewPath |-> newApi.Path,
     MethodDiff |-> ToLower(oldApi.Method) # ToLower(newApi.Method),
     PathDiff |-> FALSE,
     RequestBodyDiff |-> Marshal(oldApi.RequestBody) # Marshal(newApi.RequestBody),
     ParametersDiff |-> Marshal(oldApi.Parameters) # Marshal(newApi.Parameters),
     ResponsesDiff |-> Marshal(oldApi.Responses) # Marshal(newApi.Responses)]

\* a report whose parameters flag looks only at what the parameters text
\* renders of a parameter: name, type, required, description, enabled
CompareApisByRenderedParams(oldApi, newApi) ==
    LET rendered(list) ==
            [i \in DOMAIN list |->
                <<list[i].Name, list[i].Type, list[i].Required, list[i].Description,
                  list[i].Enable>>]
    IN [ApiID |-> newApi.ID, ApiKey |-> ApiKeyOf(newApi.ID), Name |-> newApi.Name,
        Method |-> newApi.Method, OldMethod |-> oldApi.Method,
        OldPath |-> oldApi.Path, NewPath |-> newApi.Path,
        MethodDiff |-> ToLower(oldApi.Method) # ToLower(newApi.Method),
        PathDiff |-> oldApi.Path # newApi.Path,
        RequestBodyDiff |-> Marshal(oldApi.RequestBody) # Marshal(newApi.RequestBody),
        ParametersDiff |->
            \/ rendered(oldApi.Parameters.Query) # rendered(newApi.Parameters.Query)
            \/ rendered(oldApi.Parameters.Path) # rendered(newApi.Parameters.Path),
        ResponsesDiff |-> Marshal(oldApi.Responses) # Marshal(newApi.Responses)]

\* DiffService.CompareApis: the report without its detail texts
CompareApis(oldApi, newApi) ==
    [ApiID |-> newApi.ID, ApiKey |-> ApiKeyOf(newApi.ID), Name |-> newApi.Name,
     Method |-> newApi.Method, OldMethod |-> oldApi.Method,
     OldPath |-> oldApi.Path, NewPath |-> newApi.Path,
     MethodDiff |-> ToLower(oldApi.Method) # ToLower(newApi.Method),
     PathDiff |-> oldApi.Path # newApi.Path,
     RequestBodyDiff |-> Marshal(oldApi.RequestBody) # Marshal(newApi.RequestBody),
     ParametersDiff |-> Marshal(oldApi.Parameters) # Marshal(newApi.Parameters),
     ResponsesDiff |-> Marshal(oldApi.Responses) # Marshal(newApi.Responses)]

\* a test of the flags that any report passes
HasDiffAlways(diff) == TRUE

\* diff.PathDiff || diff.MethodDiff || diff.RequestBodyDiff || ...
HasDiff(diff) ==
    \/ diff.PathDiff
    \/ diff.MethodDiff
    \/ diff.RequestBodyDiff
    \/ diff.ParametersDiff
    \/ diff.ResponsesDiff

(***************************************************************************)
(* Synchronisation service (package service): StartSync, StopSync, the     *)
(* timer loop and SyncAllAPIs                                              *)
(***************************************************************************)
MaxStarts == 1

maxConcurrency == 5

ZeroCounts == [updated |-> 0, unchanged |-> 0, new |-> 0, error |-> 0]

\* a SyncAllAPIs invocation: pc is none, list (waiting for the tree list),
\* run (tasks launched), returned, or over (its locals are gone); sem is the number of occupied slots;
\* task[i] is waiting (for a slot), fetching, fetched or done
NoSweep ==
    [pc |-> "none", items |-> <<>>, currentApis |-> EmptyMap, sem |-> 0,
     task |-> <<>>, resp |-> <<>>, out |-> <<>>, wrote |-> <<>>,
     counts |-> ZeroCounts]

\* the goroutine of StartSync: pc is start, sweep, select or exited; ch is the
\* channel its select waits on; tickBeforeSweep records a tick served before
\* the goroutine's first call of SyncAllAPIs
NewLoop ==
    [pc |-> "start", ch |-> 0, tickBeforeSweep |-> FALSE]

\* StartSync without the isSyncRunning check
StartSyncUnguarded ==
    /\ isSyncRunning' = TRUE
    /\ stopSync' = Len(loops) + 1
    /\ loops' = Append(loops, NewLoop)
    /\ sweeps' = Append(sweeps, NoSweep)
    /\ UNCHANGED <<closed, panicked>>

\* ApiService.StartSync, under syncMutex from entry to return, in a run in
\* which at most n timer loops are ever started
StartSyncWithin(n) ==
    IF isSyncRunning
    THEN UNCHANGED <<isSyncRunning, stopSync, closed, loops, sweeps, panicked>>
    ELSE /\ Len(loops) < n
         /\ isSyncRunning' = TRUE
         /\ stopSync' = Len(loops) + 1
         /\ loops' = Append(loops, NewLoop)
         /\ sweeps' = Append(sweeps, NoSweep)
         /\ UNCHANGED <<closed, panicked>>

StartSync == StartSyncWithin(MaxStarts)

\* ApiService.StopSync, under syncMutex from entry to return; close() of a
\* channel that is closed already panics
StopSync ==
    IF ~isSyncRunning
    THEN UNCHANGED <<isSyncRunning, stopSync, closed, loops, sweeps, panicked>>
    ELSE /\ closed' = closed \cup {stopSync}
         /\ isSyncRunning' = FALSE
         /\ panicked' = (panicked \/ stopSync \in closed)
         /\ UNCHANGED <<stopSync, loops, sweeps>>

\* a goroutine that goes to its select without the immediate sweep
LoopBeginWaits(l) ==
    /\ loops[l].pc = "start"
    /\ loops' = [loops EXCEPT ![l].pc = "select", ![l].ch = l]
    /\ UNCHANGED <<isSyncRunning, stopSync, closed, panicked, sweeps>>

\* the goroutine starts: the ticker is created and SyncAllAPIs is called at once
LoopBegin(l) ==
    /\ loops[l].pc = "start"
    /\ loops' = [loops EXCEPT ![l].pc = "sweep"]
    /\ sweeps' = [sweeps EXCEPT ![l] = [NoSweep EXCEPT !.pc = "list"]]
    /\ UNCHANGED <<isSyncRunning, stopSync, closed, panicked>>

\* a timer loop that gives up when its sweep could not list the catalog
LoopEnterSelectUnlessListFailed(l, ch) ==
    /\ loops[l].pc = "sweep"
    /\ sweeps[l].pc = "returned"
    /\ ch \in l..stopSync
    /\ loops' = IF sweeps[l].items = <<>>
                THEN [loops EXCEPT ![l].pc = "exited"]
                ELSE [loops EXCEPT ![l].pc = "select", ![l].ch = ch]
    /\ sweeps' = [sweeps EXCEPT ![l] = [NoSweep EXCEPT !.pc = "over"]]
    /\ UNCHANGED <<isSyncRunning, stopSync, closed, panicked>>

\* SyncAllAPIs has returned and the loop enters its select, which evaluates
\* s.stopSync without holding syncMutex: the read races with the write of a
\* later StartSync, and yields the loop's own channel or a later one
LoopEnterSelect(l, ch) ==
    /\ loops[l].pc = "sweep"
    /\ sweeps[l].pc = "returned"
    /\ ch \in l..stopSync
    /\ loops' = [loops EXCEPT ![l].pc = "select", ![l].ch = ch]
    /\ sweeps' = [sweeps EXCEPT ![l] = [NoSweep EXCEPT !.pc = "over"]]
    /\ UNCHANGED <<isSyncRunning, stopSync, closed, panicked>>

\* case <-ticker.C: a tick is in the ticker's channel (the interval has
\* elapsed since the last one, during the sweep or during the wait) and the
\* select takes it: another sweep
LoopSelectTick(l) ==
    /\ loops[l].pc = "select"
    /\ loops' = [loops EXCEPT ![l].pc = "sweep",
                              ![l].tickBeforeSweep = @ \/ sweeps[l].pc = "none"]
    /\ sweeps' = [sweeps EXCEPT ![l] = [NoSweep EXCEPT !.pc = "list"]]
    /\ UNCHANGED <<isSyncRunning, stopSync, closed, panicked>>

\* a select whose stop case never becomes ready
LoopSelectStopDeaf(l) ==
    /\ loops[l].pc = "select"
    /\ loops[l].ch \in closed
    /\ FALSE
    /\ UNCHANGED <<isSyncRunning, stopSync, closed, panicked, sweeps, loops>>

\* case <-s.stopSync: the goroutine returns and its ticker is stopped
LoopSelectStop(l) ==
    /\ loops[l].pc = "select"
    /\ loops[l].ch \in closed
    /\ loops' = [loops EXCEPT ![l].pc = "exited"]
    /\ UNCHANGED <<isSyncRunning, stopSync, closed, panicked, sweeps>>

\* SyncAllAPIs up to the launch of the tasks: the tree list is fetched (outcome
\* err: the call fails or reports non-success, and the sweep returns), the
\* valid items are extracted, the store is copied and one task per item starts
SweepList(l, outcome) ==
    /\ sweeps[l].pc = "list"
    /\ IF outcome = "err"
       THEN sweeps' = [sweeps EXCEPT ![l].pc = "returned"]
       ELSE LET items == ValidApiItems(ExtractApiItems(TreeOf(catalog)))
                n == Len(items)
            IN sweeps' = [sweeps EXCEPT ![l] =
                   [pc |-> "run", items |-> items,
                    currentApis |-> GetAllApis(apisByKey), sem |-> 0,
                    task |-> [i \in 1..n |-> "waiting"],
                    resp |-> [i \in 1..n |-> ZeroDetail],
                    out |-> [i \in 1..n |-> ""],
                    wrote |-> [i \in 1..n |-> FALSE],
                    counts |-> ZeroCounts]]
    /\ UNCHANGED <<apisByKey, apisByPath>>

\* sem <- struct{}{} without the capacity of the channel
SemFree(sw) == TRUE

\* sem <- struct{}{} can proceed: the channel has room
SemHasRoom(sw) == sw.sem < maxConcurrency

\* a task takes a slot of the semaphore
TaskAcquire(l, i) ==
    /\ sweeps[l].pc = "run"
    /\ i \in DOMAIN sweeps[l].task
    /\ sweeps[l].task[i] = "waiting"
    /\ SemHasRoom(sweeps[l])
    /\ sweeps' = [sweeps EXCEPT ![l].task[i] = "fetching", ![l].sem = @ + 1]
    /\ UNCHANGED <<apisByKey, apisByPath>>

\* a fetch that fails aborts the whole sweep
TaskFetchAborts(l, i, outcome) ==
    /\ sweeps[l].pc = "run"
    /\ i \in DOMAIN sweeps[l].task
    /\ sweeps[l].task[i] = "fetching"
    /\ LET r == GetApiDetail(catalog, sweeps[l].items[i].Key, outcome)
       IN IF r.err \/ ~r.Success \/ isEmptyApiDetail(r.Data)
          THEN sweeps' = [sweeps EXCEPT ![l].task[i] = "done",
                                        ![l].out[i] = "error",
                                        ![l].counts.error = @ + 1,
                                        ![l].sem = @ - 1,
                                        ![l].pc = "returned"]
          ELSE sweeps' = [sweeps EXCEPT ![l].task[i] = "fetched",
                                        ![l].resp[i] = r.Data]
    /\ UNCHANGED <<apisByKey, apisByPath>>

\* a task that ends on a failed fetch without counting it
TaskFetchUncounted(l, i, outcome) ==
    /\ sweeps[l].pc = "run"
    /\ i \in DOMAIN sweeps[l].task
    /\ sweeps[l].task[i] = "fetching"
    /\ LET r == GetApiDetail(catalog, sweeps[l].items[i].Key, outcome)
       IN IF r.err \/ ~r.Success \/ isEmptyApiDetail(r.Data)
          THEN sweeps' = [sweeps EXCEPT ![l].task[i] = "done",
                                        ![l].out[i] = "error",
                                        ![l].sem = @ - 1]
          ELSE sweeps' = [sweeps EXCEPT ![l].task[i] = "fetched",
                                        ![l].resp[i] = r.Data]
    /\ UNCHANGED <<apisByKey, apisByPath>>

\* GetApiDetail returns to the task; a failure or an invalid detail is counted
\* and ends the task, releasing its slot
TaskFetch(l, i, outcome) ==
    /\ sweeps[l].pc = "run"
    /\ i \in DOMAIN sweeps[l].task
    /\ sweeps[l].task[i] = "fetching"
    /\ LET r == GetApiDetail(catalog, sweeps[l].items[i].Key, outcome)
       IN IF r.err \/ ~r.Success \/ isEmptyApiDetail(r.Data)
          THEN sweeps' = [sweeps EXCEPT ![l].task[i] = "done",
                                        ![l].out[i] = "error",
                                        ![l].counts.error = @ + 1,
                                        ![l].sem = @ - 1]
          ELSE sweeps' = [sweeps EXCEPT ![l].task[i] = "fetched",
                                        ![l].resp[i] = r.Data]
    /\ UNCHANGED <<apisByKey, apisByPath>>

\* the classification of a fetched detail against the copy of the store
Classify(sw, i) ==
    LET old == MapGet(sw.currentApis, sw.items[i].Key)
    IN IF ~old.found THEN "new"
       ELSE IF HasDiff(CompareApis(old.api.Detail, sw.resp[i])) THEN "updated"
       ELSE "unchanged"

\* a StoredApiInfo that keeps the detail of the copy of the store
SweepApiInfoKeepsDetail(sw, i) ==
    [ApiKey |-> sw.items[i].Key, ApiID |-> sw.resp[i].ID, Name |-> sw.resp[i].Name,
     Method |-> ToLower(sw.resp[i].Method), ApiPath |-> sw.resp[i].Path,
     Detail |-> MapGet(sw.currentApis, sw.items[i].Key).api.Detail]

\* the StoredApiInfo a sweep task builds from the fetched detail
SweepApiInfo(sw, i) ==
    [ApiKey |-> sw.items[i].Key, ApiID |-> sw.resp[i].ID, Name |-> sw.resp[i].Name,
     Method |-> ToLower(sw.resp[i].Method), ApiPath |-> sw.resp[i].Path,
     Detail |-> sw.resp[i]]

\* a task that writes only the entities it classified as updated
TaskStoreUpdatesOnly(l, i) ==
    /\ sweeps[l].pc = "run"
    /\ i \in DOMAIN sweeps[l].task
    /\ sweeps[l].task[i] = "fetched"
    /\ LET sw == sweeps[l]
           c == Classify(sw, i)
           r == SaveApi(apisByKey, apisByPath, SweepApiInfo(sw, i))
       IN /\ sweeps' = [sweeps EXCEPT ![l].task[i] = "done",
                                      ![l].out[i] = c,
                                      ![l].wrote[i] = (c = "updated"),
                                      ![l].counts[c] = @ + 1,
                                      ![l].sem = @ - 1]
          /\ apisByKey' = IF c = "updated" THEN r.byKey ELSE apisByKey
          /\ apisByPath' = IF c = "updated" THEN r.byPath ELSE apisByPath

\* a task that writes only the entities of the configured owner
TaskStoreOwnedOnly(l, i) ==
    /\ sweeps[l].pc = "run"
    /\ i \in DOMAIN sweeps[l].task
    /\ sweeps[l].task[i] = "fetched"
    /\ LET sw == sweeps[l]
           c == Classify(sw, i)
           r == SaveApi(apisByKey, apisByPath, SweepApiInfo(sw, i))
           owned == ConfigResponsibleId = sw.resp[i].ResponsibleID
       IN /\ sweeps' = [sweeps EXCEPT ![l].task[i] = "done",
                                      ![l].out[i] = c,
                                      ![l].wrote[i] = owned,
                                      ![l].counts[c] = @ + 1,
                                      ![l].sem = @ - 1]
          /\ apisByKey' = IF owned THEN r.byKey ELSE apisByKey
          /\ apisByPath' = IF owned THEN r.byPath ELSE apisByPath

\* a task that gives up, without its write, once the stop channel is closed
TaskStoreUnlessStopped(l, i) ==
    /\ sweeps[l].pc = "run"
    /\ i \in DOMAIN sweeps[l].task
    /\ sweeps[l].task[i] = "fetched"
    /\ LET sw == sweeps[l]
           c == Classify(sw, i)
           r == SaveApi(apisByKey, apisByPath, SweepApiInfo(sw, i))
           stopped == l \in closed
       IN /\ sweeps' = [sweeps EXCEPT ![l].task[i] = "done",
                                      ![l].out[i] = c,
                                      ![l].wrote[i] = ~stopped,
                                      ![l].counts[c] = @ + 1,
                                      ![l].sem = @ - 1]
          /\ apisByKey' = IF stopped THEN apisByKey ELSE r.byKey
          /\ apisByPath' = IF stopped THEN apisByPath ELSE r.byPath

\* the rest of a task: classify, count, write the detail through to the store,
\* release the slot
TaskStore(l, i) ==
    /\ sweeps[l].pc = "run"
    /\ i \in DOMAIN sweeps[l].task
    /\ sweeps[l].task[i] = "fetched"
    /\ LET sw == sweeps[l]
           c == Classify(sw, i)
           r == SaveApi(apisByKey, apisByPath, SweepApiInfo(sw, i))
       IN /\ sweeps' = [sweeps EXCEPT ![l].task[i] = "done",
                                      ![l].out[i] = c,
                                      ![l].wrote[i] = TRUE,
                                      ![l].counts[c] = @ + 1,
                                      ![l].sem = @ - 1]
          /\ apisByKey' = r.byKey
          /\ apisByPath' = r.byPath

\* wg.Wait() returns once every task is done, and SyncAllAPIs returns
SweepReturn(l) ==
    /\ sweeps[l].pc = "run"
    /\ \A i \in DOMAIN sweeps[l].task : sweeps[l].task[i] = "done"
    /\ sweeps' = [sweeps EXCEPT ![l].pc = "returned"]
    /\ UNCHANGED <<apisByKey, apisByPath>>

(***************************************************************************)
(* Direct use of the store: put, the three reads and clear                 *)
(***************************************************************************)
NumStoreKeys == 2

NameOf(id) == <<"n", Itoa(id)>>

StoreMethods == {get, post, GET}
StorePaths == {Empty, PUser, PUsers}

\* the snapshots a caller may put
StoreInputs ==
    {[ApiKey |-> ApiKeyOf(i), ApiID |-> i, Name |-> NameOf(i), Method |-> m,
      ApiPath |-> p,
      Detail |-> [ZeroDetail EXCEPT !.ID = i, !.Name = NameOf(i), !.Method = m,
                                    !.Path = p]] :
        i \in 1..NumStoreKeys, m \in StoreMethods, p \in StorePaths}

NoOp == [op |-> "none", arg |-> ZeroApiInfo, prev |-> NotFound, res |-> NotFound,
         all |-> EmptyMap]

\* put(snapshot)
Put(apiInfo) ==
    LET r == SaveApi(apisByKey, apisByPath, apiInfo)
    IN /\ apisByKey' = r.byKey
       /\ apisByPath' = r.byPath
       /\ lastOp' = [NoOp EXCEPT !.op = "put", !.arg = apiInfo,
                                 !.prev = GetApi(apisByKey, apiInfo.ApiKey)]

\* getByKey(stableKey)
ReadByKey(apiKey) ==
    /\ lastOp' = [NoOp EXCEPT !.op = "getByKey", !.arg.ApiKey = apiKey,
                              !.res = GetApi(apisByKey, apiKey)]
    /\ UNCHANGED storeVars

\* getByPath(method, path)
ReadByPath(method, path) ==
    /\ lastOp' = [NoOp EXCEPT !.op = "getByPath", !.arg.Method = method,
                              !.arg.ApiPath = path,
                              !.res = GetApiByPath(apisByPath, method, path)]
    /\ UNCHANGED storeVars

\* all()
ReadAll ==
    /\ lastOp' = [NoOp EXCEPT !.op = "all", !.all = GetAllApis(apisByKey)]
    /\ UNCHANGED storeVars

\* ApiStore.ClearAll
ClearAll ==
    /\ apisByKey' = EmptyMap
    /\ apisByPath' = EmptyMap
    /\ lastOp' = [NoOp EXCEPT !.op = "clear"]

restVars == <<catalog, edits, isSyncRunning, stopSync, closed, loops, sweeps,
              panicked, hooks, sent, fetched>>

\* NewApiStore, NewApiService: empty indices, idle, a fresh open stop channel
InitProgram ==
    /\ apisByKey = EmptyMap
    /\ apisByPath = EmptyMap
    /\ lastOp = NoOp
    /\ isSyncRunning = FALSE
    /\ stopSync = 0
    /\ closed = {}
    /\ loops = <<>>
    /\ sweeps = <<>>
    /\ panicked = FALSE
    /\ hooks = <<>>
    /\ sent = <<>>
    /\ fetched = EmptyMap
    /\ edits = 0

InitStore ==
    /\ InitProgram
    /\ catalog = <<>>

NextStore ==
    \/ \E a \in StoreInputs : Put(a) /\ UNCHANGED restVars
    \/ \E i \in 1..NumStoreKeys : ReadByKey(ApiKeyOf(i)) /\ UNCHANGED restVars
    \/ \E m \in StoreMethods, p \in StorePaths : ReadByPath(m, p) /\ UNCHANGED restVars
    \/ ReadAll /\ UNCHANGED restVars
    \/ ClearAll /\ UNCHANGED restVars

SpecStore == InitStore /\ [][NextStore]_vars

\* C2 as stated: after put(S) whose (method, path) differs from the previous
\* Snapshot under the same stable key, getByPath with the old method/path is
\* not-found and getByPath with the new method/path returns S.
C2_StoreUniquenessAsStated ==
    (/\ lastOp.op = "put"
     /\ lastOp.prev.found
     /\ \/ lastOp.prev.api.Method # lastOp.arg.Method
        \/ lastOp.prev.api.ApiPath # lastOp.arg.ApiPath)
    => /\ ~GetApiByPath(apisByPath, lastOp.prev.api.Method, lastOp.prev.api.ApiPath).found
       /\ GetApiByPath(apisByPath, lastOp.arg.Method, lastOp.arg.ApiPath)
             = Found(lastOp.arg)

\* C2 amended: the same, for a Snapshot S whose path is not empty (a Snapshot
\* with an empty path is never entered in the path index).
C2_StoreUniqueness ==
    (/\ lastOp.op = "put"
     /\ lastOp.prev.found
     /\ lastOp.arg.ApiPath # Empty
     /\ \/ lastOp.prev.api.Method # lastOp.arg.Method
        \/ lastOp.prev.api.ApiPath # lastOp.arg.ApiPath)
    => /\ ~GetApiByPath(apisByPath, lastOp.prev.api.Method, lastOp.prev.api.ApiPath).found
       /\ GetApiByPath(apisByPath, lastOp.arg.Method, lastOp.arg.ApiPath)
             = Found(lastOp.arg)

\* a put has just replaced a Snapshot by one with another, non-empty, path
C2_Witness ==
    /\ lastOp.op = "put"
    /\ lastOp.prev.found
    /\ lastOp.prev.api.ApiPath = PUser
    /\ lastOp.arg.ApiPath = PUsers
    /\ Sprintf2(get, PUsers) \in DOMAIN apisByPath

(***************************************************************************)
(* The orchestrator on its own: start, stop, ticks and sweeps over a       *)
(* catalog that does not change                                            *)
(***************************************************************************)
\* an entity as the catalog first holds it
EntityShape(i) ==
    [Name |-> NameOf(i), Method |-> GET, Path |-> <<"/", "p", Itoa(i)>>,
     ResponsibleID |-> ConfigResponsibleId, RequestBody |-> "rb0",
     Parameters |-> "pm0", Responses |-> "rs0"]

storeAndEnv == <<apisByKey, apisByPath, lastOp, catalog, edits, hooks, sent,
                 fetched>>
aroundSweep == <<lastOp, catalog, edits, isSyncRunning, stopSync, closed, loops,
                 panicked, hooks, sent, fetched>>

LoopIds == 1..MaxStarts

InitSync ==
    /\ InitProgram
    /\ catalog = <<EntityShape(1), EntityShape(2)>>

NextSync ==
    \/ StartSync /\ UNCHANGED storeAndEnv
    \/ StopSync /\ UNCHANGED storeAndEnv
    \/ \E l \in DOMAIN loops : LoopBegin(l) /\ UNCHANGED storeAndEnv
    \/ \E l \in DOMAIN loops, ch \in LoopIds :
          LoopEnterSelect(l, ch) /\ UNCHANGED storeAndEnv
    \/ \E l \in DOMAIN loops : LoopSelectTick(l) /\ UNCHANGED storeAndEnv
    \/ \E l \in DOMAIN loops : LoopSelectStop(l) /\ UNCHANGED storeAndEnv
    \/ \E l \in DOMAIN loops, o \in {"ok", "err"} :
          SweepList(l, o) /\ UNCHANGED aroundSweep
    \/ \E l \in DOMAIN loops, i \in DOMAIN catalog :
          TaskAcquire(l, i) /\ UNCHANGED aroundSweep
    \/ \E l \in DOMAIN loops, i \in DOMAIN catalog :
          TaskFetch(l, i, "ok") /\ UNCHANGED aroundSweep
    \/ \E l \in DOMAIN loops, i \in DOMAIN catalog :
          TaskStore(l, i) /\ UNCHANGED aroundSweep
    \/ \E l \in DOMAIN loops : SweepReturn(l) /\ UNCHANGED aroundSweep

SpecSync == InitSync /\ [][NextSync]_vars

\* the steps a timer loop and its sweep take on their own: the goroutine is
\* scheduled, the network calls return, the tasks run
LoopProgress(l) ==
    /\ l \in DOMAIN loops
    /\ \/ LoopBegin(l) /\ UNCHANGED storeAndEnv
       \/ \E ch \in LoopIds : LoopEnterSelect(l, ch) /\ UNCHANGED storeAndEnv
       \/ \E o \in {"ok", "err"} : SweepList(l, o) /\ UNCHANGED aroundSweep
       \/ \E i \in DOMAIN catalog : TaskAcquire(l, i) /\ UNCHANGED aroundSweep
       \/ \E i \in DOMAIN catalog : TaskFetch(l, i, "ok") /\ UNCHANGED aroundSweep
       \/ \E i \in DOMAIN catalog : TaskStore(l, i) /\ UNCHANGED aroundSweep
       \/ SweepReturn(l) /\ UNCHANGED aroundSweep

\* the stop case of a select that is reached again and again is taken in the
\* end: select chooses among its ready cases at random
LoopStops(l) == l \in DOMAIN loops /\ LoopSelectStop(l) /\ UNCHANGED storeAndEnv

FairSync ==
    /\ SpecSync
    /\ \A l \in LoopIds : WF_vars(LoopProgress(l))
    /\ \A l \in LoopIds : SF_vars(LoopStops(l))

\* the loops whose own stop channel is still open
LiveLoops == {l \in DOMAIN loops : l \notin closed}

\* C7: start() and stop() are idempotent. start() on a running orchestrator
\* and stop() on an idle one change nothing, no call panics, and at any time
\* at most one timer loop has an open stop channel: the one that runs iff the
\* orchestrator is marked running.
C7_Idempotent ==
    /\ [](/\ Cardinality(LiveLoops) <= 1
          /\ isSyncRunning <=> LiveLoops # {}
          /\ ~panicked)
    /\ [][/\ (isSyncRunning /\ StartSync) => UNCHANGED vars
          /\ (~isSyncRunning /\ StopSync) => UNCHANGED vars]_vars

\* started, then stopped: a further stop() finds the orchestrator idle
C7_Witness == ~isSyncRunning /\ Len(loops) = 1 /\ closed = {1}

\* a sweep of loop l begins in this step
SweepBegins(l) == sweeps[l].pc # "list" /\ sweeps'[l].pc = "list"

\* C8 as stated: once stop() has returned on a running orchestrator and start()
\* is not called again, no new sweep begins, and the timer loop exits in the end.
C8_NoSweepAfterStop ==
    /\ [][\A l \in LoopIds :
            (l \in DOMAIN loops /\ l \in closed /\ Len(loops') = l) => ~SweepBegins(l)]_vars
    /\ \A l \in LoopIds :
          (l \in DOMAIN loops /\ l \in closed)
             ~> ((l \in DOMAIN loops /\ loops[l].pc = "exited") \/ Len(loops) > l)

\* C8 amended: once stop() has returned on a running orchestrator and start()
\* is not called again, the timer loop exits in the end (sweeps may still begin
\* before it does).
C8_LoopExits ==
    \A l \in LoopIds :
        (l \in DOMAIN loops /\ l \in closed)
           ~> ((l \in DOMAIN loops /\ loops[l].pc = "exited") \/ Len(loops) > l)

\* the last loop started was stopped and has exited
C8_Witness ==
    /\ Len(loops) = 1
    /\ 1 \in closed
    /\ loops[1].pc = "exited"

\* C9: after start() on an idle orchestrator the new loop runs one sweep to its
\* end, and it serves no tick before it has begun that sweep.
C9_ImmediateSweep ==
    /\ [](\A l \in DOMAIN loops : ~loops[l].tickBeforeSweep)
    /\ \A l \in LoopIds :
          (l \in DOMAIN loops /\ loops[l].pc = "start")
             ~> (l \in DOMAIN loops /\ sweeps[l].pc = "returned")

\* the first sweep of a loop has returned, before any tick was served
C9_Witness ==
    /\ Len(loops) >= 1
    /\ sweeps[1].pc = "returned"
    /\ sweeps[1].counts.new = 2
    /\ ~loops[1].tickBeforeSweep

\* C10: stop() does not pre-empt a sweep in progress. When the stop channel of
\* a loop is closed while its sweep has tasks launched, the sweep still returns
\* with every task done, and every task whose fetch succeeded has written its
\* Snapshot to the store.
C10_StopDoesNotPreempt ==
    \A l \in LoopIds :
        (l \in DOMAIN loops /\ l \in closed /\ sweeps[l].pc = "run")
           ~> (/\ l \in DOMAIN loops
               /\ sweeps[l].pc = "returned"
               /\ \A i \in DOMAIN sweeps[l].task :
                     /\ sweeps[l].task[i] = "done"
                     /\ sweeps[l].out[i] # "error" =>
                           /\ sweeps[l].wrote[i]
                           /\ sweeps[l].items[i].Key \in DOMAIN apisByKey)

\* stop() has returned while one task is fetching and another awaits its slot
C10_Witness ==
    /\ Len(loops) >= 1
    /\ 1 \in closed
    /\ sweeps[1].pc = "run"
    /\ sweeps[1].task[1] = "fetching"
    /\ sweeps[1].task[2] = "waiting"

(***************************************************************************)
(* One sweep over a catalog larger than the semaphore                      *)
(***************************************************************************)
NumSweepItems == 6

\* the timer loop of the running service has just called SyncAllAPIs
InitSweep ==
    /\ apisByKey = EmptyMap
    /\ apisByPath = EmptyMap
    /\ lastOp = NoOp
    /\ isSyncRunning = TRUE
    /\ stopSync = 1
    /\ closed = {}
    /\ loops = <<[NewLoop EXCEPT !.pc = "sweep", !.ch = 1]>>
    /\ sweeps = <<[NoSweep EXCEPT !.pc = "list"]>>
    /\ panicked = FALSE
    /\ hooks = <<>>
    /\ sent = <<>>
    /\ fetched = EmptyMap
    /\ edits = 0
    /\ catalog = [i \in 1..NumSweepItems |-> EntityShape(i)]

NextSweep ==
    \/ \E o \in {"ok", "err"} : SweepList(1, o) /\ UNCHANGED aroundSweep
    \/ \E i \in DOMAIN catalog : TaskAcquire(1, i) /\ UNCHANGED aroundSweep
    \/ \E i \in DOMAIN catalog, o \in {"ok", "err"} :
          TaskFetch(1, i, o) /\ UNCHANGED aroundSweep
    \/ \E i \in DOMAIN catalog : TaskStore(1, i) /\ UNCHANGED aroundSweep
    \/ SweepReturn(1) /\ UNCHANGED aroundSweep

SpecSweep == InitSweep /\ [][NextSweep]_vars

\* the tasks that have taken their slot and not finished their
\* fetch-diff-store step
Outstanding(sw) == {i \in DOMAIN sw.task : sw.task[i] \in {"fetching", "fetched"}}

\* C6: bounded concurrency. During a sweep over more than 5 entities the
\* number of outstanding fetch tasks never exceeds 5, whatever the order in
\* which the tasks complete.
C6_BoundedConcurrency ==
    \A l \in DOMAIN sweeps :
        /\ Cardinality(Outstanding(sweeps[l])) <= 5
        /\ sweeps[l].sem = Cardinality(Outstanding(sweeps[l]))

\* five tasks hold the five slots while another one waits for a slot
C6_Witness ==
    /\ Len(sweeps[1].items) > 5
    /\ Cardinality(Outstanding(sweeps[1])) = 5
    /\ \E i \in DOMAIN sweeps[1].task : sweeps[1].task[i] = "waiting"

(***************************************************************************)
(* Webhook handler (package server): HandleWebhook in the steps between    *)
(* which other goroutines run: the request is decoded and parsed, the live *)
(* mapping arrives, the detail arrives, the notifier answers               *)
(***************************************************************************)
\* the labels that open the name line and the path line of a webhook content
NameLabel == <<"[name]">>
PathLabel == <<"[path]">>

\* ParseWebhookContent, the loop over the lines: a later line of the same
\* label replaces the value of an earlier one
RECURSIVE ParseLines(_, _, _)
ParseLines(lines, apiName, apiPath) ==
    IF lines = <<>> THEN [apiName |-> apiName, apiPath |-> apiPath]
    ELSE LET line == TrimSpace(Head(lines))
         IN IF HasPrefix(line, NameLabel)
            THEN ParseLines(Tail(lines), TrimPrefix(line, NameLabel), apiPath)
            ELSE IF HasPrefix(line, PathLabel)
            THEN ParseLines(Tail(lines), apiName, TrimPrefix(line, PathLabel))
            ELSE ParseLines(Tail(lines), apiName, apiPath)

\* ParseWebhookContent: content is the sequence of the lines of the text
ParseWebhookContent(content) ==
    LET r == ParseLines(content, Empty, Empty)
    IN [err |-> (r.apiName = Empty \/ r.apiPath = Empty),
        apiName |-> r.apiName, apiPath |-> r.apiPath]

\* ExtractMethodFromPath
ExtractMethodFromPath(path) == ToLower(Split(path)[1])

\* Client.GetApiMappings, successful response: "<lowercased method> <path>" ->
\* ApiBasic over the apiDetail items that have both; a later item replaces an
\* earlier one of the same key
ApiMappings(cat) ==
    LET tree == TreeOf(cat)
        idx == {i \in DOMAIN tree : /\ tree[i].Type = "apiDetail"
                                     /\ tree[i].api.Method # Empty
                                     /\ tree[i].api.Path # Empty}
        KeyAt(i) == ToLower(tree[i].api.Method) \o <<SP>> \o tree[i].api.Path
    IN [k \in {KeyAt(i) : i \in idx} |->
           tree[CHOOSE i \in idx :
                   KeyAt(i) = k /\ \A j \in idx : KeyAt(j) = k => j <= i].api]

\* a HandleWebhook invocation: pc is mappings (GetApiMappings outstanding),
\* detail (GetApiDetail outstanding), notify (the notifier outstanding) or
\* done; status is the HTTP status written
NoHook ==
    [pc |-> "done", event |-> "", apiPath |-> Empty, method |-> Empty,
     path |-> Empty, branch |-> "", apiKey |-> Empty, basic |-> ZeroApiBasic,
     old |-> NotFound, resp |-> ZeroDetail, status |-> 0]

\* the handler has written its status and returned
HookDone(status) == [NoHook EXCEPT !.status = status]

\* StoredApiInfo of the branch that found the entity in the live mapping
HookApiInfoFromBasic(hk, detail) ==
    [ApiKey |-> hk.apiKey, ApiID |-> hk.basic.ID, Name |-> hk.basic.Name,
     Method |-> ToLower(hk.basic.Method), ApiPath |-> hk.basic.Path,
     Detail |-> detail]

\* StoredApiInfo of the branch that found the entity in the store
HookApiInfoFromOld(hk, detail) ==
    [ApiKey |-> hk.old.api.ApiKey, ApiID |-> detail.ID, Name |-> hk.old.api.Name,
     Method |-> ToLower(detail.Method), ApiPath |-> detail.Path,
     Detail |-> detail]

HookApiInfo(hk, detail) ==
    IF hk.branch = "live" THEN HookApiInfoFromBasic(hk, detail)
    ELSE HookApiInfoFromOld(hk, detail)

\* the ApiDiff of a created entity
CreatedDiff(hk) ==
    [ApiID |-> hk.basic.ID, ApiKey |-> Empty, Name |-> hk.basic.Name,
     Method |-> hk.basic.Method, OldMethod |-> Empty, OldPath |-> Empty,
     NewPath |-> hk.basic.Path, MethodDiff |-> FALSE, PathDiff |-> FALSE,
     RequestBodyDiff |-> FALSE, ParametersDiff |-> FALSE, ResponsesDiff |-> FALSE]

\* the ghost record of the successful fetches of entity id
NoteFetch(f, id, detail) ==
    MapPut(f, id, [last |-> detail,
                   all |-> (IF id \in DOMAIN f THEN f[id].all ELSE {}) \cup {detail}])

\* a handler without the event filter
HookReceiveAnyEvent(event, content) ==
    LET p == ParseWebhookContent(content)
        method == ExtractMethodFromPath(p.apiPath)
        path == TrimSpace(TrimPrefix(p.apiPath, method \o <<SP>>))
        hk == IF p.err THEN HookDone(400)
              ELSE IF method = Empty THEN HookDone(400)
              ELSE [NoHook EXCEPT !.pc = "mappings", !.event = event,
                                  !.apiPath = p.apiPath, !.method = method,
                                  !.path = path]
    IN /\ hooks' = Append(hooks, hk)
       /\ UNCHANGED <<apisByKey, apisByPath, sent, fetched>>

\* the request arrives: event filter, ParseWebhookContent, method and path
HookReceive(event, content) ==
    LET p == ParseWebhookContent(content)
        method == ExtractMethodFromPath(p.apiPath)
        path == TrimSpace(TrimPrefix(p.apiPath, method \o <<SP>>))
        hk == IF event # "API_UPDATED" /\ event # "API_CREATED"
              THEN HookDone(200)
              ELSE IF p.err THEN HookDone(400)
              ELSE IF method = Empty THEN HookDone(400)
              ELSE [NoHook EXCEPT !.pc = "mappings", !.event = event,
                                  !.apiPath = p.apiPath, !.method = method,
                                  !.path = path]
    IN /\ hooks' = Append(hooks, hk)
       /\ UNCHANGED <<apisByKey, apisByPath, sent, fetched>>

\* a handler that takes the stable key of the path index's entry, when there
\* is one, before the id of the live mapping
HookMappingsStoreFirst(h, outcome) ==
    /\ hooks[h].pc = "mappings"
    /\ LET hk == hooks[h]
           apiMappings == ApiMappings(catalog)
           split == Split(hk.path)
           lookupKey == ToLower(split[1]) \o <<SP>> \o split[2]
           byPath == MapGet(apisByPath, lookupKey)
           basic == apiMappings[lookupKey]
           apiKey == IF byPath.found THEN byPath.api.ApiKey ELSE ApiKeyOf(basic.ID)
           byKey == GetApi(apisByKey, apiKey)
           nxt == IF outcome = "err" THEN HookDone(500)
                  ELSE IF Len(split) < 2 THEN HookDone(500)
                  ELSE IF lookupKey \notin DOMAIN apiMappings
                  THEN IF ~byPath.found THEN HookDone(404)
                       ELSE [hk EXCEPT !.pc = "detail", !.branch = "fallback",
                                       !.apiKey = byPath.api.ApiKey, !.old = byPath]
                  ELSE [hk EXCEPT !.pc = "detail", !.branch = "live",
                                  !.apiKey = apiKey, !.basic = basic,
                                  !.old = IF byKey.found THEN byKey ELSE byPath]
       IN hooks' = [hooks EXCEPT ![h] = nxt]
    /\ UNCHANGED <<apisByKey, apisByPath, sent, fetched>>

\* GetApiMappings returns (outcome err: the call fails); the lookup key is
\* built from split[0] and split[1] (an index out of range panics, and the
\* recoverer answers 500); the entity is looked up in the live mapping and
\* then in the store
HookMappings(h, outcome) ==
    /\ hooks[h].pc = "mappings"
    /\ LET hk == hooks[h]
           apiMappings == ApiMappings(catalog)
           split == Split(hk.path)
           lookupKey == ToLower(split[1]) \o <<SP>> \o split[2]
           byPath == GetApiByPath(apisByPath, hk.method, hk.path)
           basic == apiMappings[lookupKey]
           apiKey == ApiKeyOf(basic.ID)
           byKey == GetApi(apisByKey, apiKey)
           nxt == IF outcome = "err" THEN HookDone(500)
                  ELSE IF Len(split) < 2 THEN HookDone(500)
                  ELSE IF lookupKey \notin DOMAIN apiMappings
                  THEN IF ~byPath.found THEN HookDone(404)
                       ELSE [hk EXCEPT !.pc = "detail", !.branch = "fallback",
                                       !.apiKey = byPath.api.ApiKey, !.old = byPath]
                  ELSE [hk EXCEPT !.pc = "detail", !.branch = "live",
                                  !.apiKey = apiKey, !.basic = basic,
                                  !.old = IF byKey.found THEN byKey ELSE byPath]
       IN hooks' = [hooks EXCEPT ![h] = nxt]
    /\ UNCHANGED <<apisByKey, apisByPath, sent, fetched>>

\* an owner check that lets every detail pass
OwnerNeverChecked(detail) == FALSE

\* h.apifoxClient.GetConfig().ResponsibleId != apiDetailResp.Data.ResponsibleID
OwnerMismatch(detail) == ConfigResponsibleId # detail.ResponsibleID

\* a handler that announces every entity it sees for the first time, whatever
\* the event
HookDetailAnnouncesFirstSight(h, outcome) ==
    /\ hooks[h].pc = "detail"
    /\ LET hk == hooks[h]
           r == GetApiDetail(catalog, hk.apiKey, outcome)
           d == r.Data
           diff == CompareApis(hk.old.api.Detail, d)
           saved == SaveApi(apisByKey, apisByPath, HookApiInfo(hk, d))
           save == apisByKey' = saved.byKey /\ apisByPath' = saved.byPath
           keep == UNCHANGED <<apisByKey, apisByPath>>
           notify == hooks' = [hooks EXCEPT ![h] = [hk EXCEPT !.pc = "notify", !.resp = d]]
           done == hooks' = [hooks EXCEPT ![h] = HookDone(200)]
       IN IF r.err
          THEN /\ hooks' = [hooks EXCEPT ![h] = HookDone(500)]
               /\ UNCHANGED <<apisByKey, apisByPath, fetched>>
          ELSE /\ fetched' = NoteFetch(fetched, IdOfKey(hk.apiKey), d)
               /\ IF OwnerMismatch(d) THEN save /\ done
                  ELSE IF hk.branch = "fallback"
                  THEN IF HasDiff(diff) THEN keep /\ notify
                       ELSE keep /\ done
                  ELSE IF hk.old.found
                  THEN IF HasDiff(diff) THEN keep /\ notify
                       ELSE save /\ done
                  ELSE keep /\ notify
    /\ UNCHANGED sent

\* GetApiDetail returns (outcome err: the call fails): the owner is checked,
\* the stored detail is compared with the fetched one, and the handler either
\* answers or calls the notifier
HookDetail(h, outcome) ==
    /\ hooks[h].pc = "detail"
    /\ LET hk == hooks[h]
           r == GetApiDetail(catalog, hk.apiKey, outcome)
           d == r.Data
           diff == CompareApis(hk.old.api.Detail, d)
           saved == SaveApi(apisByKey, apisByPath, HookApiInfo(hk, d))
           save == apisByKey' = saved.byKey /\ apisByPath' = saved.byPath
           keep == UNCHANGED <<apisByKey, apisByPath>>
           notify == hooks' = [hooks EXCEPT ![h] = [hk EXCEPT !.pc = "notify", !.resp = d]]
           done == hooks' = [hooks EXCEPT ![h] = HookDone(200)]
       IN IF r.err
          THEN /\ hooks' = [hooks EXCEPT ![h] = HookDone(500)]
               /\ UNCHANGED <<apisByKey, apisByPath, fetched>>
          ELSE /\ fetched' = NoteFetch(fetched, IdOfKey(hk.apiKey), d)
               /\ IF OwnerMismatch(d) THEN save /\ done
                  ELSE IF hk.branch = "fallback"
                  THEN IF HasDiff(diff) THEN keep /\ notify
                       ELSE keep /\ done
                  ELSE IF hk.old.found
                  THEN IF HasDiff(diff) THEN keep /\ notify
                       ELSE save /\ done
                  ELSE IF hk.event = "API_CREATED" THEN keep /\ notify
                       ELSE save /\ done
    /\ UNCHANGED sent

\* a handler that stores the fetched detail before it calls the notifier
HookNotifySavesFirst(h, outcome) ==
    /\ hooks[h].pc = "notify"
    /\ LET hk == hooks[h]
           n == IF hk.old.found
                THEN [kind |-> "changed",
                      diff |-> CompareApis(hk.old.api.Detail, hk.resp)]
                ELSE [kind |-> "created", diff |-> CreatedDiff(hk)]
           saved == SaveApi(apisByKey, apisByPath, HookApiInfo(hk, hk.resp))
       IN /\ apisByKey' = saved.byKey
          /\ apisByPath' = saved.byPath
          /\ IF outcome = "fail"
             THEN /\ hooks' = [hooks EXCEPT ![h] = HookDone(500)]
                  /\ UNCHANGED sent
             ELSE /\ sent' = Append(sent, n)
                  /\ hooks' = [hooks EXCEPT ![h] = HookDone(200)]
    /\ UNCHANGED fetched

\* the notifier answers (outcome fail: the send fails and nothing is stored);
\* after a delivered notification the fetched detail is stored
HookNotify(h, outcome) ==
    /\ hooks[h].pc = "notify"
    /\ LET hk == hooks[h]
           n == IF hk.old.found
                THEN [kind |-> "changed",
                      diff |-> CompareApis(hk.old.api.Detail, hk.resp)]
                ELSE [kind |-> "created", diff |-> CreatedDiff(hk)]
           saved == SaveApi(apisByKey, apisByPath, HookApiInfo(hk, hk.resp))
       IN IF outcome = "fail"
          THEN /\ hooks' = [hooks EXCEPT ![h] = HookDone(500)]
               /\ UNCHANGED <<apisByKey, apisByPath, sent>>
          ELSE /\ sent' = Append(sent, n)
               /\ apisByKey' = saved.byKey
               /\ apisByPath' = saved.byPath
               /\ hooks' = [hooks EXCEPT ![h] = HookDone(200)]
    /\ UNCHANGED fetched

(***************************************************************************)
(* The running service: the timer loop and its sweeps, webhook requests    *)
(* and edits made upstream, over a catalog of one entity                   *)
(***************************************************************************)
MaxHooks == 1
MaxEdits == 1

OtherResponsibleId == 2 * ConfigResponsibleId

\* an edit made in the remote catalog
Edited(e, kind) ==
    IF kind = "path"
    THEN [e EXCEPT !.Path = IF @ = PUser THEN PUsers ELSE PUser]
    ELSE [e EXCEPT !.ResponsibleID = IF @ = ConfigResponsibleId
                                     THEN OtherResponsibleId
                                     ELSE ConfigResponsibleId]

UpstreamEdit(kind) ==
    /\ edits < MaxEdits
    /\ edits' = edits + 1
    /\ catalog' = [catalog EXCEPT ![1] = Edited(@, kind)]
    /\ UNCHANGED <<apisByKey, apisByPath, lastOp, isSyncRunning, stopSync, closed,
                   loops, sweeps, panicked, hooks, sent, fetched>>

\* the webhook requests that arrive
SigName == NameLabel \o NameOf(1)
SigPath(m, p) == PathLabel \o m \o <<SP>> \o p
SignalContents ==
    {<<SigName, SigPath(GET, PUser)>>,
     <<SigName, SigPath(GET, PUsers)>>,
     <<SigName, SigPath(get, PUser)>>,
     <<SigName, SigPath(Empty, PUser)>>,
     <<SigName>>}
SignalEvents == {"API_UPDATED", "API_CREATED", "API_DELETED"}

aroundHook == <<lastOp, catalog, edits, isSyncRunning, stopSync, closed, loops,
                sweeps, panicked>>
aroundLoop == <<apisByKey, apisByPath, lastOp, catalog, edits, hooks, sent,
                fetched>>
aroundTask == <<lastOp, catalog, edits, isSyncRunning, stopSync, closed, loops,
                panicked, hooks, sent>>

\* a fetch task's GetApiDetail returns, and a successful fetch is recorded
TaskFetchNoted(l, i, outcome) ==
    /\ TaskFetch(l, i, outcome)
    /\ fetched' = IF sweeps'[l].task[i] = "fetched"
                  THEN NoteFetch(fetched, IdOfKey(sweeps[l].items[i].Key),
                                 sweeps'[l].resp[i])
                  ELSE fetched

\* main: InitializeApiList could not list the catalog and left the store
\* empty, StartSync has been called and the server listens
InitHook ==
    /\ apisByKey = EmptyMap
    /\ apisByPath = EmptyMap
    /\ lastOp = NoOp
    /\ isSyncRunning = TRUE
    /\ stopSync = 1
    /\ closed = {}
    /\ loops = <<NewLoop>>
    /\ sweeps = <<NoSweep>>
    /\ panicked = FALSE
    /\ hooks = <<>>
    /\ sent = <<>>
    /\ fetched = EmptyMap
    /\ edits = 0
    /\ catalog = <<[EntityShape(1) EXCEPT !.Path = PUser]>>

NextHook ==
    \/ LoopBegin(1) /\ UNCHANGED aroundLoop
    \/ LoopEnterSelect(1, 1) /\ UNCHANGED aroundLoop
    \/ LoopSelectTick(1) /\ UNCHANGED aroundLoop
    \/ SweepList(1, "ok") /\ UNCHANGED aroundSweep
    \/ \E i \in DOMAIN catalog : TaskAcquire(1, i) /\ UNCHANGED aroundSweep
    \/ \E i \in DOMAIN catalog : TaskFetchNoted(1, i, "ok") /\ UNCHANGED aroundTask
    \/ \E i \in DOMAIN catalog : TaskStore(1, i) /\ UNCHANGED aroundSweep
    \/ SweepReturn(1) /\ UNCHANGED aroundSweep
    \/ \E k \in {"path", "owner"} : UpstreamEdit(k)
    \/ \E e \in SignalEvents, c \in SignalContents :
          Len(hooks) < MaxHooks /\ HookReceive(e, c) /\ UNCHANGED aroundHook
    \/ \E h \in DOMAIN hooks, o \in {"ok", "err"} :
          HookMappings(h, o) /\ UNCHANGED aroundHook
    \/ \E h \in DOMAIN hooks, o \in {"ok", "err"} :
          HookDetail(h, o) /\ UNCHANGED aroundHook
    \/ \E h \in DOMAIN hooks, o \in {"ok", "fail"} :
          HookNotify(h, o) /\ UNCHANGED aroundHook

SpecHook == InitHook /\ [][NextHook]_vars

\* the path key "<lowercased method> <path>" of the method and path that a
\* signal's path line carries
SignalPathKey(apiPath) ==
    ToLower(Split(apiPath)[1]) \o <<SP>> \o Split(apiPath)[2]

\* C1: rename fallback. When the handler has fetched the live mapping, the
\* method+path the signal carries is absent from it and the store holds a
\* Snapshot under the path key "<lowercased method> <path>", the handler does
\* not fail with not-found: it goes on to fetch the detail by that Snapshot's
\* stable key.
C1_RenameFallback ==
    [][\A h \in DOMAIN hooks :
          (/\ hooks[h].pc = "mappings"
           /\ hooks'[h].pc # "mappings"
           /\ hooks'[h].status # 500
           /\ Len(Split(hooks[h].apiPath)) = 2
           /\ SignalPathKey(hooks[h].apiPath) \notin DOMAIN ApiMappings(catalog)
           /\ SignalPathKey(hooks[h].apiPath) \in DOMAIN apisByPath)
          => /\ hooks'[h].status # 404
             /\ hooks'[h].pc = "detail"
             /\ hooks'[h].apiKey = apisByPath[SignalPathKey(hooks[h].apiPath)].ApiKey]_vars

\* C3: Scenario B. A handler that resolved the signal through the live
\* mapping, found the Snapshot {GET, /user} in the store and fetches the
\* detail {GET, /users} of an entity whose owner is the configured one calls
\* the notifier; when the notifier delivers, the notification carries a report
\* with PathDiff, old path /user and new path /users, and the store then holds
\* the fetched detail under the entity's stable key.
C3_ScenarioB ==
    [][\A h \in DOMAIN hooks :
          LET hk == hooks[h]
              id == IdOfKey(hk.apiKey)
           IN /\ (/\ hk.pc = "detail"
                  /\ hk.branch = "live"
                  /\ hk.old.found
                  /\ hk.old.api.Detail.Method = GET
                  /\ hk.old.api.Detail.Path = PUser
                  /\ catalog[id].Method = GET
                  /\ catalog[id].Path = PUsers
                  /\ catalog[id].ResponsibleID = ConfigResponsibleId
                  /\ hooks'[h] # hk
                  /\ hooks'[h].status # 500)
                 => /\ hooks'[h].pc = "notify"
                    /\ hooks'[h].resp.Path = PUsers
              /\ (/\ hk.pc = "notify"
                  /\ hk.branch = "live"
                  /\ hk.old.found
                  /\ hk.old.api.Detail.Method = GET
                  /\ hk.old.api.Detail.Path = PUser
                  /\ hk.resp.Method = GET
                  /\ hk.resp.Path = PUsers
                  /\ hooks'[h].status = 200)
                 => /\ Len(sent') = Len(sent) + 1
                    /\ sent'[Len(sent')].kind = "changed"
                    /\ sent'[Len(sent')].diff.PathDiff
                    /\ sent'[Len(sent')].diff.OldPath = PUser
                    /\ sent'[Len(sent')].diff.NewPath = PUsers
                    /\ GetApi(apisByKey', hk.apiKey).found
                    /\ GetApi(apisByKey', hk.apiKey).api.Detail = hk.resp]_vars

\* a rename has been notified: the report is delivered and the store holds
\* the new path under the stable key
C3_Witness ==
    /\ Len(sent) >= 1
    /\ sent[1].kind = "changed"
    /\ sent[1].diff.PathDiff
    /\ sent[1].diff.OldPath = PUser
    /\ sent[1].diff.NewPath = PUsers
    /\ GetApi(apisByKey, ApiKeyOf(1)).found
    /\ GetApi(apisByKey, ApiKeyOf(1)).api.Detail.Path = PUsers
    /\ Len(hooks) >= 1
    /\ hooks[1].status = 200

\* at least one of the five aspects differs between two details
Differ(oldApi, newApi) ==
    \/ ToLower(oldApi.Method) # ToLower(newApi.Method)
    \/ oldApi.Path # newApi.Path
    \/ oldApi.RequestBody # newApi.RequestBody
    \/ oldApi.Parameters # newApi.Parameters
    \/ oldApi.Responses # newApi.Responses

\* C4: notification gate. A change notification is delivered only by a
\* handler whose fetched detail has the configured owner and differs from the
\* stored detail in at least one aspect; a handler whose fetched detail equals
\* the stored one, or has another owner, never calls the notifier.
C4_NotificationGate ==
    [][\A h \in DOMAIN hooks :
          /\ (hooks[h].pc = "detail" /\ hooks'[h].pc = "notify" /\ hooks'[h].old.found)
             => /\ hooks'[h].resp.ResponsibleID = ConfigResponsibleId
                /\ Differ(hooks'[h].old.api.Detail, hooks'[h].resp)
          /\ (sent' # sent /\ sent'[Len(sent')].kind = "changed")
             => \E g \in DOMAIN hooks :
                   /\ hooks[g].pc = "notify"
                   /\ hooks'[g].pc = "done"
                   /\ hooks[g].resp.ResponsibleID = ConfigResponsibleId
                   /\ Differ(hooks[g].old.api.Detail, hooks[g].resp)]_vars

\* a handler has fetched a detail equal to the stored one, stored it and
\* answered 200 without any notification
C4_Witness ==
    /\ Len(hooks) >= 1
    /\ hooks[1].pc = "done"
    /\ hooks[1].status = 200
    /\ sent = <<>>
    /\ 1 \in DOMAIN fetched
    /\ GetApi(apisByKey, ApiKeyOf(1)).found
    /\ Cardinality(fetched[1].all) = 1
    /\ edits = 0

\* no fetch task of a sweep holds a slot and every handler has returned
Quiescent ==
    /\ \A l \in DOMAIN sweeps : Outstanding(sweeps[l]) = {}
    /\ \A h \in DOMAIN hooks : hooks[h].pc = "done"

NumResweepItems == 3

\* the catalog of the later sweep: every second entity has another owner
ResweepCatalog ==
    [i \in 1..NumResweepItems |->
        [EntityShape(i) EXCEPT !.ResponsibleID =
            IF i % 2 = 0 THEN OtherResponsibleId ELSE ConfigResponsibleId]]

\* an entity as the catalog held it before its request body was edited
EarlierShape(e) == [e EXCEPT !.RequestBody = "rbOld"]

\* the details an earlier sweep fetched: seen[i] is "same" (the entity as it
\* is now), "old" (its earlier shape) or "none" (the entity was not there)
EarlierResp(seen) ==
    [i \in DOMAIN seen |->
        DetailOf(i, IF seen[i] = "old" THEN EarlierShape(ResweepCatalog[i])
                    ELSE ResweepCatalog[i])]

\* the store after the SaveApi calls of that earlier sweep for entities 1..n
RECURSIVE EarlierStore(_, _)
EarlierStore(seen, n) ==
    IF n = 0 THEN [byKey |-> EmptyMap, byPath |-> EmptyMap]
    ELSE LET s == EarlierStore(seen, n - 1)
             sw == [items |-> [i \in DOMAIN seen |-> [Key |-> ApiKeyOf(i)]],
                    resp |-> EarlierResp(seen)]
         IN IF seen[n] = "none" THEN s
            ELSE SaveApi(s.byKey, s.byPath, SweepApiInfo(sw, n))

\* the ticker fires and the loop calls SyncAllAPIs again
InitResweep ==
    /\ \E seen \in [1..NumResweepItems -> {"none", "same", "old"}] :
          /\ apisByKey = EarlierStore(seen, NumResweepItems).byKey
          /\ apisByPath = EarlierStore(seen, NumResweepItems).byPath
    /\ lastOp = NoOp
    /\ isSyncRunning = TRUE
    /\ stopSync = 1
    /\ closed = {}
    /\ loops = <<[NewLoop EXCEPT !.pc = "sweep", !.ch = 1]>>
    /\ sweeps = <<[NoSweep EXCEPT !.pc = "list"]>>
    /\ panicked = FALSE
    /\ hooks = <<>>
    /\ sent = <<>>
    /\ fetched = EmptyMap
    /\ edits = 0
    /\ catalog = ResweepCatalog

NextResweep ==
    \/ \E o \in {"ok", "err"} : SweepList(1, o) /\ UNCHANGED aroundSweep
    \/ \E i \in DOMAIN catalog : TaskAcquire(1, i) /\ UNCHANGED aroundSweep
    \/ \E i \in DOMAIN catalog, o \in {"ok", "err", "empty"} :
          TaskFetch(1, i, o) /\ UNCHANGED aroundSweep
    \/ \E i \in DOMAIN catalog : TaskStore(1, i) /\ UNCHANGED aroundSweep
    \/ SweepReturn(1) /\ UNCHANGED aroundSweep

SpecResweep == InitResweep /\ [][NextResweep]_vars

\* the goroutines of a sweep are scheduled and the calls of the HTTP client
\* return (the client has a timeout)
FairResweep == SpecResweep /\ WF_vars(NextResweep)

\* the tasks of a sweep that ended in an error
Failed(sw) == {i \in DOMAIN sw.out : sw.out[i] = "error"}

\* C11: sweep failure isolation. A detail fetch that fails or returns an
\* empty detail is counted as an error and leaves the store as it is, the
\* other tasks are not disturbed; when the sweep returns, every entity whose
\* fetch failed has the snapshot it had before the sweep, every other entity
\* has been fetched and written; and the sweep does return.
C11_FailureIsolation ==
    /\ [][\A i \in DOMAIN sweeps[1].task :
             (sweeps[1].task[i] = "fetching" /\ sweeps'[1].out[i] = "error")
             => /\ sweeps'[1].counts.error = sweeps[1].counts.error + 1
                /\ UNCHANGED <<apisByKey, apisByPath>>
                /\ sweeps'[1].pc = "run"
                /\ \A j \in DOMAIN sweeps[1].task \ {i} :
                      /\ sweeps'[1].task[j] = sweeps[1].task[j]
                      /\ sweeps'[1].resp[j] = sweeps[1].resp[j]]_vars
    /\ [](sweeps[1].pc = "returned" /\ sweeps[1].items # <<>> =>
             LET sw == sweeps[1]
             IN /\ sw.counts.error = Cardinality(Failed(sw))
                /\ \A i \in DOMAIN sw.task :
                      IF i \in Failed(sw)
                      THEN GetApi(apisByKey, sw.items[i].Key)
                           = MapGet(sw.currentApis, sw.items[i].Key)
                      ELSE /\ sw.wrote[i]
                           /\ GetApi(apisByKey, sw.items[i].Key).found
                           /\ GetApi(apisByKey, sw.items[i].Key).api.Detail
                              = DetailOf(i, catalog[i]))
    /\ <>(sweeps[1].pc = "returned")

\* the sweep has returned: the fetch of an entity that had a snapshot failed,
\* the snapshot is still the earlier one, and another entity was written
C11_Witness ==
    /\ sweeps[1].pc = "returned"
    /\ \E i, j \in DOMAIN sweeps[1].task :
          /\ sweeps[1].out[i] = "error"
          /\ GetApi(apisByKey, ApiKeyOf(i)).found
          /\ GetApi(apisByKey, ApiKeyOf(i)).api.Detail.RequestBody = "rbOld"
          /\ sweeps[1].out[j] = "updated"
          /\ sweeps[1].wrote[j]
          /\ GetApi(apisByKey, ApiKeyOf(j)).api.Detail.RequestBody = "rb0"

\* the snapshot under the stable key of entity i carries detail d and is
\* indexed under the method and path of d
WrittenThrough(byKey, byPath, i, d) ==
    /\ GetApi(byKey, ApiKeyOf(i)).found
    /\ GetApi(byKey, ApiKeyOf(i)).api.ApiKey = ApiKeyOf(i)
    /\ GetApi(byKey, ApiKeyOf(i)).api.Detail = d
    /\ GetApiByPath(byPath, ToLower(d.Method), d.Path)
       = GetApi(byKey, ApiKeyOf(i))

\* C12: sweep write-through. The step that ends the task of an entity whose
\* fetch succeeded with a non-empty detail classifies the entity as new,
\* updated or unchanged and, whichever it is, leaves the fetched detail in
\* the store under the entity's stable key; a fetched entity is never
\* dropped without that step.
C12_WriteThrough ==
    /\ [][\A i \in DOMAIN sweeps[1].task :
             (sweeps[1].task[i] = "fetched" /\ sweeps'[1].task[i] # "fetched")
             => /\ sweeps'[1].task[i] = "done"
                /\ sweeps'[1].out[i] \in {"new", "updated", "unchanged"}
                /\ sweeps[1].items[i].Key = ApiKeyOf(i)
                /\ ~isEmptyApiDetail(sweeps[1].resp[i])
                /\ WrittenThrough(apisByKey', apisByPath', i, sweeps[1].resp[i])]_vars
    /\ [](\A i \in DOMAIN sweeps[1].task :
             sweeps[1].out[i] \in {"new", "updated", "unchanged"}
             => /\ sweeps[1].wrote[i]
                /\ sweeps[1].resp[i] = DetailOf(i, catalog[i])
                /\ WrittenThrough(apisByKey, apisByPath, i, sweeps[1].resp[i]))

\* one sweep has written a new, an updated and an unchanged entity
C12_Witness ==
    /\ sweeps[1].pc = "returned"
    /\ \E i, j, k \in DOMAIN sweeps[1].task :
          /\ sweeps[1].out[i] = "new"
          /\ sweeps[1].out[j] = "updated"
          /\ sweeps[1].out[k] = "unchanged"
          /\ \A n \in {i, j, k} :
                WrittenThrough(apisByKey, apisByPath, n, DetailOf(n, catalog[n]))

\* C13: sweeps are silent and unfiltered. No step of a sweep adds a call of
\* the notifier, and the task of an entity whose owner is not the configured
\* one fetches, classifies and stores the entity like any other.
C13_SilentUnfilteredSweep ==
    /\ [][sweeps' # sweeps => sent' = sent]_vars
    /\ [][\A i \in DOMAIN sweeps[1].task :
             (sweeps[1].task[i] = "fetched" /\ sweeps'[1].task[i] = "done"
                 /\ sweeps[1].resp[i].ResponsibleID # ConfigResponsibleId)
             => /\ sweeps'[1].out[i] \in {"new", "updated", "unchanged"}
                /\ GetApi(apisByKey', sweeps[1].items[i].Key).found
                /\ GetApi(apisByKey', sweeps[1].items[i].Key).api.Detail
                   = sweeps[1].resp[i]]_vars

\* a sweep has stored an entity of another owner, no webhook has arrived and
\* the notifier has not been called
C13_Witness ==
    /\ hooks = <<>>
    /\ sent = <<>>
    /\ sweeps[1].pc = "returned"
    /\ sweeps[1].wrote[1]
    /\ GetApi(apisByKey, ApiKeyOf(1)).found
    /\ GetApi(apisByKey, ApiKeyOf(1)).api.Detail.ResponsibleID = OtherResponsibleId

(***************************************************************************)
(* The handler after the cold start: main has called InitializeApiList and *)
(* StartSync, the goroutine of the timer loop has not run yet, and webhook *)
(* requests arrive while the catalog is edited                             *)
(***************************************************************************)
\* a path that holds a space
PSpaced == <<"/", "a", SP, "b">>

\* the StoredApiInfo a task of InitializeApiList builds: the basic
\* information of the tree item, overwritten by the detail when the fetch
\* succeeded with a detail that is not empty
InitApiInfo(item, r) ==
    LET basicInfo == [ApiKey |-> item.Key, ApiID |-> item.api.ID,
                      Name |-> item.Name, Method |-> ToLower(item.api.Method),
                      ApiPath |-> item.api.Path, Detail |-> ZeroDetail]
    IN IF ~r.err /\ r.Success /\ ~isEmptyApiDetail(r.Data)
       THEN [basicInfo EXCEPT !.ApiID = r.Data.ID,
                              !.Method = ToLower(r.Data.Method),
                              !.ApiPath = r.Data.Path, !.Detail = r.Data]
       ELSE basicInfo

\* the tasks of InitializeApiList for the first n items: each saves its
\* StoredApiInfo when the method and the path are not empty (the tasks write
\* under different keys, the order of their writes does not matter)
RECURSIVE InitializeApiTasks(_, _, _, _)
InitializeApiTasks(cat, items, outcomes, n) ==
    IF n = 0 THEN [byKey |-> EmptyMap, byPath |-> EmptyMap]
    ELSE LET s == InitializeApiTasks(cat, items, outcomes, n - 1)
             apiInfo == InitApiInfo(items[n],
                                    GetApiDetail(cat, items[n].Key, outcomes[n]))
         IN IF apiInfo.Method # Empty /\ apiInfo.ApiPath # Empty
            THEN SaveApi(s.byKey, s.byPath, apiInfo)
            ELSE s

\* ApiService.InitializeApiList: the store it leaves (listed "err": the tree
\* list could not be fetched and nothing is stored)
InitializeApiList(cat, listed, outcomes) ==
    IF listed = "err" THEN [byKey |-> EmptyMap, byPath |-> EmptyMap]
    ELSE LET items == ValidApiItems(ExtractApiItems(TreeOf(cat)))
         IN InitializeApiTasks(cat, items, outcomes, Len(items))

\* the catalogs of one entity at the cold start
ColdCatalogs ==
    {<<[EntityShape(1) EXCEPT !.Path = p, !.ResponsibleID = o]>> :
        p \in {PUser, PSpaced},
        o \in {ConfigResponsibleId, OtherResponsibleId}}

\* the requests that arrive after the cold start: those of SignalContents, a
\* path line of one token, a content without a name line, and the entity
\* whose path holds a space
ColdSignalContents ==
    SignalContents \cup {<<SigName, PathLabel \o PUser>>,
                         <<SigPath(GET, PUser)>>,
                         <<SigName, SigPath(get, PSpaced)>>}

\* the request as lastOp records it
SignalOp(event, content) ==
    [op |-> "webhook", event |-> event, content |-> content]

aroundSignal == <<catalog, edits, isSyncRunning, stopSync, closed, loops,
                  sweeps, panicked>>

\* a webhook request arrives and is recorded
SignalArrives(event, content) ==
    /\ HookReceive(event, content)
    /\ lastOp' = SignalOp(event, content)

InitCold ==
    /\ catalog \in ColdCatalogs
    /\ \E listed \in {"ok", "err"}, o \in {"ok", "err", "empty"} :
          LET s == InitializeApiList(catalog, listed, <<o>>)
          IN apisByKey = s.byKey /\ apisByPath = s.byPath
    /\ lastOp = NoOp
    /\ isSyncRunning = TRUE
    /\ stopSync = 1
    /\ closed = {}
    /\ loops = <<NewLoop>>
    /\ sweeps = <<NoSweep>>
    /\ panicked = FALSE
    /\ hooks = <<>>
    /\ sent = <<>>
    /\ fetched = EmptyMap
    /\ edits = 0

NextCold ==
    \/ \E k \in {"path", "owner"} : UpstreamEdit(k)
    \/ \E e \in SignalEvents, c \in ColdSignalContents :
          Len(hooks) < MaxHooks /\ SignalArrives(e, c) /\ UNCHANGED aroundSignal
    \/ \E h \in DOMAIN hooks, o \in {"ok", "err"} :
          HookMappings(h, o) /\ UNCHANGED aroundHook
    \/ \E h \in DOMAIN hooks, o \in {"ok", "err", "empty"} :
          HookDetail(h, o) /\ UNCHANGED aroundHook
    \/ \E h \in DOMAIN hooks, o \in {"ok", "fail"} :
          HookNotify(h, o) /\ UNCHANGED aroundHook

SpecCold == InitCold /\ [][NextCold]_vars

\* C14: Scenario D, owner mismatch. When the detail a handler fetched has an
\* owner other than the configured one, the handler stores the fetched detail
\* under the entity's stable key, does not call the notifier and answers 200;
\* a handler that goes on to the notifier has fetched a detail of the
\* configured owner.
C14_OwnerMismatch ==
    [][\A h \in DOMAIN hooks :
          (hooks[h].pc = "detail" /\ hooks'[h] # hooks[h])
          => \/ /\ hooks'[h] = HookDone(500)
                /\ UNCHANGED <<apisByKey, apisByPath, sent, fetched>>
             \/ LET d == fetched'[IdOfKey(hooks[h].apiKey)].last
                IN IF ConfigResponsibleId # d.ResponsibleID
                   THEN /\ hooks'[h] = HookDone(200)
                        /\ sent' = sent
                        /\ GetApi(apisByKey', hooks[h].apiKey).found
                        /\ GetApi(apisByKey', hooks[h].apiKey).api.Detail = d
                   ELSE hooks'[h].pc = "notify"
                        => hooks'[h].resp.ResponsibleID = ConfigResponsibleId]_vars

\* Scenario D: the snapshot of the cold start had path /user, the entity of
\* owner 200 was renamed to /users, the signal was answered 200, the store
\* holds the new shape and the notifier was not called
C14_Witness ==
    /\ ConfigResponsibleId = 100
    /\ catalog[1].ResponsibleID = 200
    /\ catalog[1].Path = PUsers
    /\ edits = 1
    /\ lastOp = SignalOp("API_UPDATED", <<SigName, SigPath(GET, PUsers)>>)
    /\ hooks = <<HookDone(200)>>
    /\ sent = <<>>
    /\ GetApi(apisByKey, ApiKeyOf(1)).found
    /\ GetApi(apisByKey, ApiKeyOf(1)).api.Detail = DetailOf(1, catalog[1])
    /\ GetApi(apisByKey, ApiKeyOf(1)).api.ApiPath = PUsers
    /\ DOMAIN apisByPath = {Sprintf2(get, PUsers)}

\* C15: Scenario E, ignored event. A request whose event is neither
\* API_UPDATED nor API_CREATED is answered 200 in the step in which it
\* arrives, whatever its content: the handler is done, so it fetches neither
\* the live mapping nor a detail, and the store, the notifier's calls and the
\* record of fetches are as before; every handler that waits for the live
\* mapping, a detail or the notifier serves one of the two handled events.
C15_IgnoredEvent ==
    /\ [][(Len(hooks') = Len(hooks) + 1 /\ lastOp'.op = "webhook"
              /\ lastOp'.event \notin {"API_UPDATED", "API_CREATED"})
          => /\ hooks'[Len(hooks')] = HookDone(200)
             /\ UNCHANGED <<apisByKey, apisByPath, sent, fetched>>]_vars
    /\ [](\A h \in DOMAIN hooks :
             hooks[h].pc # "done" => hooks[h].event \in {"API_UPDATED", "API_CREATED"})

\* an API_DELETED request for the stored entity has been answered 200 and
\* nothing else has happened
C15_Witness ==
    /\ lastOp = SignalOp("API_DELETED", <<SigName, SigPath(GET, PUser)>>)
    /\ hooks = <<HookDone(200)>>
    /\ GetApi(apisByKey, ApiKeyOf(1)).found
    /\ GetApi(apisByKey, ApiKeyOf(1)).api.ApiPath = PUser
    /\ sent = <<>>
    /\ fetched = EmptyMap

\* C16: correlation miss. When the live mapping has arrived and the
\* method+path of the signal is a key neither of the live mapping nor of the
\* store's path index, the handler answers 404 in that step: it fetches no
\* detail, does not call the notifier and leaves the store as it is.
C16_CorrelationMiss ==
    [][\A h \in DOMAIN hooks :
          (/\ hooks[h].pc = "mappings"
           /\ Len(Split(hooks[h].apiPath)) = 2
           /\ SignalPathKey(hooks[h].apiPath) \notin DOMAIN ApiMappings(catalog)
           /\ SignalPathKey(hooks[h].apiPath) \notin DOMAIN apisByPath
           /\ HookMappings(h, "ok"))
          => /\ hooks'[h] = HookDone(404)
             /\ UNCHANGED <<apisByKey, apisByPath, sent, fetched>>]_vars

\* a content without a name, without a path line, or whose path line does not
\* hold a method token and a path
Malformed(content) ==
    LET p == ParseWebhookContent(content)
    IN \/ p.apiName = Empty
       \/ p.apiPath = Empty
       \/ Len(Split(p.apiPath)) < 2
       \/ Split(p.apiPath)[1] = Empty

\* C17: malformed signal. A request of a handled event whose content lacks
\* the name or the path line, or whose path line has no method token (a path
\* line of a single token included), is answered 400 in the step in which it
\* arrives, with the store, the notifier's calls and the record of fetches
\* unchanged; its handling ends in no other failure.
C17_MalformedSignal ==
    [][(Len(hooks') = Len(hooks) + 1 /\ lastOp'.op = "webhook"
           /\ lastOp'.event \in {"API_UPDATED", "API_CREATED"}
           /\ Malformed(lastOp'.content))
       => /\ hooks'[Len(hooks')] = HookDone(400)
          /\ UNCHANGED <<apisByKey, apisByPath, sent, fetched>>]_vars

C19_ReplaceOnEveryObservation ==
    [][\A h \in DOMAIN hooks :
          /\ (/\ hooks[h].pc = "detail"
              /\ hooks'[h] = HookDone(200)
              /\ fetched'[IdOfKey(hooks[h].apiKey)].last.ResponsibleID
                 = ConfigResponsibleId)
             => /\ GetApi(apisByKey', hooks[h].apiKey).found
                /\ GetApi(apisByKey', hooks[h].apiKey).api.Detail
                   = fetched'[IdOfKey(hooks[h].apiKey)].last
          /\ (hooks[h].pc = "notify" /\ hooks'[h] = HookDone(200))
             => /\ GetApi(apisByKey', hooks[h].apiKey).found
                /\ GetApi(apisByKey', hooks[h].apiKey).api.Detail = hooks[h].resp]_vars

\* C20: snapshots come only from successful observations. Every snapshot in
\* the store carries a detail that a fetch returned with success and that is
\* not the empty detail: neither the cold start nor a sweep nor a handler
\* stores a snapshot after a failed fetch or an empty response.
C20_SnapshotsFromSuccessfulFetch ==
    \A k \in DOMAIN apisByKey :
        /\ ~isEmptyApiDetail(apisByKey[k].Detail)
        /\ apisByKey[k].Detail.ID = IdOfKey(k)

(***************************************************************************)
(* The store on its own, continued                                         *)
(***************************************************************************)
\* C21: snapshots are deleted by clear() only. Every operation other than
\* clear() leaves every stable key of the store in the store (getByKey still
\* finds it); after clear(), getByKey and getByPath find nothing, whatever
\* the key.
C21_DeletedOnlyByClear ==
    /\ [][lastOp'.op # "clear"
          => \A k \in DOMAIN apisByKey : GetApi(apisByKey', k).found]_vars
    /\ [](lastOp.op = "clear"
          => /\ \A i \in 1..NumStoreKeys : ~GetApi(apisByKey, ApiKeyOf(i)).found
             /\ \A m \in StoreMethods, p \in StorePaths :
                   ~GetApiByPath(apisByPath, m, p).found
             /\ DOMAIN apisByKey = {} /\ DOMAIN apisByPath = {})

\* a put has taken over the path key of another snapshot, and both stable
\* keys are still found
C21_Witness ==
    /\ lastOp.op = "put"
    /\ lastOp.prev.found
    /\ lastOp.arg.ApiPath # Empty
    /\ lastOp.prev.api.ApiPath # lastOp.arg.ApiPath
    /\ \A i \in 1..NumStoreKeys : GetApi(apisByKey, ApiKeyOf(i)).found
    /\ \E i \in 1..NumStoreKeys :
          /\ ApiKeyOf(i) # lastOp.arg.ApiKey
          /\ apisByKey[ApiKeyOf(i)].Method = lastOp.arg.Method
          /\ apisByKey[ApiKeyOf(i)].ApiPath = lastOp.arg.ApiPath

\* C22: getByPath is case-insensitive on method. For every path, getByPath
\* with the method in upper case and with the method in lower case return
\* the same (snapshot, found), whatever the case of the method of the
\* snapshots that were put.
C22_GetByPathIgnoresCase ==
    \A p \in StorePaths :
        GetApiByPath(apisByPath, GET, p) = GetApiByPath(apisByPath, ToLower(GET), p)

(***************************************************************************)
(* Diff engine: the detail texts of CompareApis                            *)
(*                                                                         *)
(* A text is the sequence of the pieces written to the strings.Builder.    *)
(* The literals of the source are Chinese; here each is its English        *)
(* rendering, the source literal standing in the comment next to it.       *)
(* A Go map is a function, and a `range` over a map follows an order the   *)
(* runtime picks: every operator that ranges over a map takes that order   *)
(* as a sequence of the keys. The names, types and titles of parameters,   *)
(* responses and schema fields are held as whole strings, "" the empty one.*)
(***************************************************************************)
NL == "\n"

\* the permutations of a finite set, as sequences
Perms(S) ==
    {f \in [1..Cardinality(S) -> S] : \A i, j \in 1..Cardinality(S) : f[i] = f[j] => i = j}

\* the elements of a sequence
Range(seq) == {seq[i] : i \in 1..Len(seq)}

\* oldParamMap[p.Name] = p for every p of the list, in list order
RECURSIVE ParamMapOf(_, _)
ParamMapOf(list, n) ==
    IF n = 0 THEN EmptyMap
    ELSE MapPut(ParamMapOf(list, n - 1), list[n].Name, list[n])

\* the three line heads of a parameter category
\* "+ 新增参数: ", "* 修改参数: ", "- 删除参数: "
BodyParamHeads ==
    [added |-> "+ new parameter: ", modified |-> "* changed parameter: ",
     removed |-> "- removed parameter: "]
\* "+ 新增: ", "* 修改: ", "- 删除: "
ParamHeads == [added |-> "+ new: ", modified |-> "* changed: ", removed |-> "- removed: "]

\* the line of a parameter that the old map does not hold
\* "%s (%s" [", 必填"] ")\n"
AddedParamLine(heads, newParam) ==
    <<heads.added, newParam.Name, " (", newParam.Type>>
    \o (IF newParam.Required THEN <<", required">> ELSE <<>>)
    \o <<")", NL>>

\* the lines of a parameter that both sides hold
ModifiedParamLines(heads, oldParam, newParam) ==
    IF \/ newParam.Type # oldParam.Type
       \/ newParam.Required # oldParam.Required
       \/ newParam.Description # oldParam.Description
       \/ newParam.Enable # oldParam.Enable
    THEN <<heads.modified, newParam.Name, NL>>
         \* "  - 类型: %s -> %s\n"
         \o (IF newParam.Type # oldParam.Type
             THEN <<"  - type: ", oldParam.Type, " -> ", newParam.Type, NL>>
             ELSE <<>>)
         \* "  - 变为必填\n", "  - 变为非必填\n"
         \o (IF newParam.Required # oldParam.Required
             THEN (IF newParam.Required THEN <<"  - now required", NL>>
                                        ELSE <<"  - now optional", NL>>)
             ELSE <<>>)
         \* "  - 描述变更: %s -> %s\n"
         \o (IF newParam.Description # oldParam.Description
             THEN <<"  - description: ", oldParam.Description, " -> ",
                    newParam.Description, NL>>
             ELSE <<>>)
         \* "  - 已启用\n", "  - 已禁用\n"
         \o (IF newParam.Enable # oldParam.Enable
             THEN (IF newParam.Enable THEN <<"  - enabled", NL>>
                                      ELSE <<"  - disabled", NL>>)
             ELSE <<>>)
    ELSE <<>>

\* the loop over the new parameters: the text it writes and what it leaves
\* in the old map
RECURSIVE NewParamLoop(_, _, _, _)
NewParamLoop(heads, oldMap, newList, n) ==
    IF n = 0 THEN [text |-> <<>>, left |-> oldMap]
    ELSE LET before == NewParamLoop(heads, oldMap, newList, n - 1)
             newParam == newList[n]
             old == MapGet(before.left, newParam.Name)
         IN [text |-> before.text
                      \o (IF ~old.found THEN AddedParamLine(heads, newParam)
                          ELSE ModifiedParamLines(heads, old.api, newParam)),
             left |-> MapDelete(before.left, newParam.Name)]

\* for name, param := range oldParamMap, in the order the runtime picked
RECURSIVE RemovedParamLines(_, _, _, _)
RemovedParamLines(heads, left, order, n) ==
    IF n = 0 THEN <<>>
    ELSE RemovedParamLines(heads, left, order, n - 1)
         \o <<heads.removed, order[n], " (", left[order[n]].Type, ")", NL>>

\* the names a loop over the new parameters leaves in the old map
LeftParams(oldList, newList) ==
    DOMAIN NewParamLoop(ParamHeads, ParamMapOf(oldList, Len(oldList)), newList,
                        Len(newList)).left

\* the lines of one parameter category
ParamLines(heads, oldList, newList, order) ==
    LET loop == NewParamLoop(heads, ParamMapOf(oldList, Len(oldList)), newList,
                             Len(newList))
    IN loop.text \o RemovedParamLines(heads, loop.left, order, Len(order))

\* %d of a status code
FormatCode(code) ==
    CASE code = 200 -> "200"
      [] code = 201 -> "201"
      [] code = 400 -> "400"
      [] code = 404 -> "404"
      [] OTHER -> "500"

\* oldResponseMap[resp.Code] = resp
RECURSIVE ResponseMapOf(_, _)
ResponseMapOf(list, n) ==
    IF n = 0 THEN EmptyMap
    ELSE MapPut(ResponseMapOf(list, n - 1), list[n].Code, list[n])

\* the lines of a status code that both sides hold
ModifiedResponseLines(oldResp, newResp) ==
    IF Marshal(oldResp) # Marshal(newResp)
    THEN \* "* 修改状态码: %d\n"
         <<"* changed status code: ", FormatCode(newResp.Code), NL>>
         \* "  - 名称: %s -> %s\n"
         \o (IF oldResp.Name # newResp.Name
             THEN <<"  - name: ", oldResp.Name, " -> ", newResp.Name, NL>>
             ELSE <<>>)
         \* "  - 内容类型: %s -> %s\n"
         \o (IF oldResp.ContentType # newResp.ContentType
             THEN <<"  - content type: ", oldResp.ContentType, " -> ",
                    newResp.ContentType, NL>>
             ELSE <<>>)
         \* "  - 描述变更\n"
         \o (IF oldResp.Description # newResp.Description
             THEN <<"  - description changed", NL>> ELSE <<>>)
         \* "  - 响应结构变更\n"
         \o (IF Marshal(oldResp.JsonSchema) # Marshal(newResp.JsonSchema)
             THEN <<"  - schema changed", NL>> ELSE <<>>)
    ELSE <<>>

\* the loop over the new responses
RECURSIVE NewResponseLoop(_, _, _)
NewResponseLoop(oldMap, newList, n) ==
    IF n = 0 THEN [text |-> <<>>, left |-> oldMap]
    ELSE LET before == NewResponseLoop(oldMap, newList, n - 1)
             newResp == newList[n]
         IN [text |-> before.text
                      \o (IF newResp.Code \notin DOMAIN before.left
                          \* "+ 新增状态码: %d (%s)\n"
                          THEN <<"+ new status code: ", FormatCode(newResp.Code), " (",
                                 newResp.Name, ")", NL>>
                          ELSE ModifiedResponseLines(before.left[newResp.Code],
                                                     newResp)),
             left |-> MapDelete(before.left, newResp.Code)]

\* for code, resp := range oldResponseMap: "- 删除状态码: %d (%s)\n"
RECURSIVE RemovedResponseLines(_, _, _)
RemovedResponseLines(left, order, n) ==
    IF n = 0 THEN <<>>
    ELSE RemovedResponseLines(left, order, n - 1)
         \o <<"- removed status code: ", FormatCode(order[n]), " (", left[order[n]].Name,
              ")", NL>>

\* the status codes the loop over the new responses leaves in the old map
LeftResponses(oldList, newList) ==
    DOMAIN NewResponseLoop(ResponseMapOf(oldList, Len(oldList)), newList,
                           Len(newList)).left

\* A JSON schema as json.Unmarshal leaves it in an interface{}: nil, or a
\* map[string]interface{} of which the model keeps the keys "type",
\* "properties" and "required" (keys says which of them the map holds), or a
\* string. A property is a map of which the model keeps "type", "title" and
\* "description", the empty string standing for an absent key.
NilSchema ==
    [kind |-> "nil", keys |-> {}, type |-> "", properties |-> EmptyMap,
     required |-> <<>>, value |-> ""]
MapSchema(keys, type, properties, required) ==
    [kind |-> "map", keys |-> keys, type |-> type, properties |-> properties,
     required |-> required, value |-> ""]
Prop(type) == [type |-> type, title |-> "", description |-> ""]

\* contains(slice, item)
contains(slice, item) == \E i \in 1..Len(slice) : slice[i] = item

\* equalStringSlices(a, b): the same length, and every item of b is in a
equalStringSlices(a, b) ==
    /\ Len(a) = Len(b)
    /\ \A i \in 1..Len(b) : contains(a, b[i])

\* analyzeJsonSchemaDiff, old schema nil: one line per property of the new
\* schema, in the order of the range over newProps, then the required list
RECURSIVE NewSchemaFieldLines(_, _, _)
NewSchemaFieldLines(newProps, order, n) ==
    IF n = 0 THEN <<>>
    ELSE NewSchemaFieldLines(newProps, order, n - 1)
         \* "* 新增字段: %s (%s)\n", the type "object" when the property has none
         \o <<"* new field: ", order[n], " (",
              (IF newProps[order[n]].type # "" THEN newProps[order[n]].type
               ELSE "object"), ")", NL>>

\* "  - %s\n" for every item of the required list
RECURSIVE RequiredListLines(_, _)
RequiredListLines(required, n) ==
    IF n = 0 THEN <<>>
    ELSE RequiredListLines(required, n - 1) \o <<"  - ", required[n], NL>>

\* analyzePropertiesDiff reads the required lists from oldProps["required"]
\* and newProps["required"], the entries of the properties maps themselves.
\* A property of the model is a map, never a list, so both type assertions
\* fail and both sets stay empty.
OldRequiredFields(oldProps) == {}
NewRequiredFields(newProps) == {}

\* " (%s)" of the type and " [%s]" of the title of a removed or added field
FieldSuffix(prop, isRequired) ==
    (IF prop.type # "" THEN <<" (", prop.type, ")">> ELSE <<>>)
    \o (IF prop.title # "" THEN <<" [", prop.title, "]">> ELSE <<>>)
    \* " (必填)"
    \o (IF isRequired THEN <<" (required)">> ELSE <<>>)

\* "* 删除字段: %s" for the fields of removedFields
RECURSIVE RemovedFieldLines(_, _, _, _)
RemovedFieldLines(oldProps, required, removedFields, n) ==
    IF n = 0 THEN <<>>
    ELSE RemovedFieldLines(oldProps, required, removedFields, n - 1)
         \o <<"* removed field: ", removedFields[n]>>
         \o FieldSuffix(oldProps[removedFields[n]], removedFields[n] \in required)
         \o <<NL>>

\* "* 新增字段: %s" for the fields of addedFields
RECURSIVE AddedFieldLines(_, _, _, _)
AddedFieldLines(newProps, required, addedFields, n) ==
    IF n = 0 THEN <<>>
    ELSE AddedFieldLines(newProps, required, addedFields, n - 1)
         \o <<"* new field: ", addedFields[n]>>
         \o FieldSuffix(newProps[addedFields[n]], addedFields[n] \in required)
         \o <<NL>>

\* the entry of one modified field
ModifiedFieldEntry(name, oldProp, newProp, oldRequired, newRequired) ==
    \* "* 修改字段: %s [%s]\n" or "* 修改字段: %s\n"
    (IF newProp.title # "" /\ newProp.title # name
     THEN <<"* changed field: ", name, " [", newProp.title, "]", NL>>
     ELSE <<"* changed field: ", name, NL>>)
    \* "  - 类型: %s -> %s\n"
    \o (IF oldProp.type # newProp.type /\ oldProp.type # "" /\ newProp.type # ""
        THEN <<"  - type: ", oldProp.type, " -> ", newProp.type, NL>> ELSE <<>>)
    \* "  - 名称: %s -> %s\n"
    \o (IF oldProp.title # newProp.title /\ oldProp.title # ""
           /\ newProp.title # ""
        THEN <<"  - title: ", oldProp.title, " -> ", newProp.title, NL>> ELSE <<>>)
    \* "  - 说明: %s -> %s\n"
    \o (IF oldProp.description # newProp.description
           /\ (oldProp.description # "" \/ newProp.description # "")
        THEN <<"  - description: ", oldProp.description, " -> ",
               newProp.description, NL>>
        ELSE <<>>)
    \* "  - 变为必填\n", "  - 变为可选\n"
    \o (IF oldRequired # newRequired
        THEN (IF newRequired THEN <<"  - now required", NL>>
                             ELSE <<"  - now optional", NL>>)
        ELSE <<>>)

\* the entries of modifiedFields; the changes of a field hold no key besides
\* "type", "title" and "description", which the last loop skips
RECURSIVE ModifiedFieldLines(_, _, _, _, _, _)
ModifiedFieldLines(oldProps, newProps, oldReq, newReq, modifiedFields, n) ==
    IF n = 0 THEN <<>>
    ELSE LET name == modifiedFields[n]
         IN ModifiedFieldLines(oldProps, newProps, oldReq, newReq, modifiedFields,
                               n - 1)
            \o ModifiedFieldEntry(name, oldProps[name], newProps[name],
                                  name \in oldReq, name \in newReq)

\* analyzePropertiesDiff with the required sets it works from: oldOrder and
\* newOrder are the orders of the ranges over oldProps and over newProps
PropertiesDiffWith(oldReq, newReq, oldProps, newProps, oldOrder, newOrder) ==
    LET isField(name) == name # "required"
        modifiedFields ==
            SelectSeq(oldOrder,
                      LAMBDA name :
                          /\ isField(name)
                          /\ name \in DOMAIN newProps
                          /\ \/ Marshal(oldProps[name]) # Marshal(newProps[name])
                             \/ (name \in oldReq) # (name \in newReq))
        removedFields ==
            SelectSeq(oldOrder,
                      LAMBDA name : isField(name) /\ name \notin DOMAIN newProps)
        addedFields ==
            SelectSeq(newOrder,
                      LAMBDA name : isField(name) /\ name \notin DOMAIN oldProps)
    IN RemovedFieldLines(oldProps, oldReq, removedFields, Len(removedFields))
       \o AddedFieldLines(newProps, newReq, addedFields, Len(addedFields))
       \o ModifiedFieldLines(oldProps, newProps, oldReq, newReq, modifiedFields,
                             Len(modifiedFields))

analyzePropertiesDiff(oldProps, newProps, oldOrder, newOrder) ==
    PropertiesDiffWith(OldRequiredFields(oldProps), NewRequiredFields(newProps),
                       oldProps, newProps, oldOrder, newOrder)

\* the required section of analyzeJsonSchemaDiff: "  + 新增必填: %s\n" for
\* the fields that entered the required list, "  - 移除必填: %s\n" for those
\* that left it, under one "* 必填项变更:\n"; inBoth(field) is the test a
\* field passes to be listed
RequiredChangeLinesWith(inBoth(_), oldSchema, newSchema) ==
    LET oldReqSlice == oldSchema.required
        newReqSlice == newSchema.required
        nowRequired ==
            SelectSeq(newReqSlice,
                      LAMBDA field : ~contains(oldReqSlice, field) /\ inBoth(field))
        nowOptional ==
            SelectSeq(oldReqSlice,
                      LAMBDA field : ~contains(newReqSlice, field) /\ inBoth(field))
        lines(head, fields) ==
            [i \in 1..(3 * Len(fields)) |->
                CASE i % 3 = 1 -> head
                  [] i % 3 = 2 -> fields[(i + 1) \div 3]
                  [] OTHER -> NL]
    IN IF /\ "required" \in oldSchema.keys
          /\ "required" \in newSchema.keys
          /\ ~equalStringSlices(oldReqSlice, newReqSlice)
          /\ Len(nowRequired) + Len(nowOptional) > 0
       THEN <<"* required changes:", NL>>
            \o lines("  + now required: ", nowRequired)
            \o lines("  - no longer required: ", nowOptional)
       ELSE <<>>

\* a required section that lists every field entering or leaving the list
RequiredChangeLinesOfAnyField(oldSchema, newSchema) ==
    RequiredChangeLinesWith(LAMBDA field : TRUE, oldSchema, newSchema)

\* oldPropsMap[field] && newPropsMap[field]: both maps are filled from the
\* "properties" of their schema, when it has them
RequiredChangeLines(oldSchema, newSchema) ==
    RequiredChangeLinesWith(
        LAMBDA field :
            /\ "properties" \in oldSchema.keys /\ field \in DOMAIN oldSchema.properties
            /\ "properties" \in newSchema.keys /\ field \in DOMAIN newSchema.properties,
        oldSchema, newSchema)

\* analyzeJsonSchemaDiff(builder, oldSchema, newSchema)
analyzeJsonSchemaDiff(oldSchema, newSchema, oldOrder, newOrder) ==
    CASE oldSchema.kind = "nil" /\ newSchema.kind = "nil" -> <<>>
      [] oldSchema.kind = "nil" /\ newSchema.kind = "map" ->
            IF "properties" \in newSchema.keys /\ DOMAIN newSchema.properties # {}
            THEN NewSchemaFieldLines(newSchema.properties, newOrder, Len(newOrder))
                 \* "* 必填字段:\n"
                 \o (IF "required" \in newSchema.keys /\ Len(newSchema.required) > 0
                     THEN <<"* required fields:", NL>>
                          \o RequiredListLines(newSchema.required,
                                               Len(newSchema.required))
                     ELSE <<>>)
            ELSE IF "type" \in newSchema.keys /\ newSchema.type # "object"
                 \* "* 请求体为 %s 类型\n"
                 THEN <<"* request body is of type ", newSchema.type, NL>>
                 ELSE <<>>
      [] oldSchema.kind = "nil" /\ newSchema.kind = "string" ->
            \* "* 请求体值: %s\n"
            IF newSchema.value # ""
            THEN <<"* request body value: ", newSchema.value, NL>> ELSE <<>>
      \* "* 移除了请求体结构\n"
      [] oldSchema.kind # "nil" /\ newSchema.kind = "nil" ->
            <<"* request body schema removed", NL>>
      [] oldSchema.kind = "map" /\ newSchema.kind = "map" ->
            \* "* 数据类型: %s -> %s\n"
            (IF /\ "type" \in oldSchema.keys
                /\ "type" \in newSchema.keys
                /\ oldSchema.type # newSchema.type
             THEN <<"* data type: ", oldSchema.type, " -> ", newSchema.type, NL>>
             ELSE <<>>)
            \o (IF "properties" \in oldSchema.keys /\ "properties" \in newSchema.keys
                THEN analyzePropertiesDiff(oldSchema.properties, newSchema.properties,
                                           oldOrder, newOrder)
                ELSE <<>>)
            \o RequiredChangeLines(oldSchema, newSchema)
      \* "* 值变更: %s -> %s\n"
      [] oldSchema.kind = "string" /\ newSchema.kind = "string" ->
            IF oldSchema.value # newSchema.value
            THEN <<"* value: ", oldSchema.value, " -> ", newSchema.value, NL>>
            ELSE <<>>
      [] OTHER -> <<>>

\* oldMediaType == "" becomes "none"
MediaTypeOf(requestBody) ==
    IF requestBody.MediaType = "" THEN "none" ELSE requestBody.MediaType

\* CompareApis, lines 51 to 151: diff.RequestBodyDetail
RequestBodyDetail(oldApi, newApi, ord) ==
    LET old == oldApi.RequestBody
        new == newApi.RequestBody
        params == ParamLines(BodyParamHeads, old.Parameters, new.Parameters,
                             ord.bodyParams)
    IN IF Marshal(old) = Marshal(new) THEN <<>>
       \* "【请求体变更】\n"
       ELSE <<"[request body changes]", NL>>
            \* "* 请求体类型: %s -> %s\n", of the media type and then of the type
            \o (IF MediaTypeOf(old) # MediaTypeOf(new)
                THEN <<"* request body type: ", MediaTypeOf(old), " -> ",
                       MediaTypeOf(new), NL>>
                ELSE <<>>)
            \o (IF old.Type # new.Type
                THEN <<"* request body type: ", old.Type, " -> ", new.Type, NL>>
                ELSE <<>>)
            \o (IF Marshal(old.JsonSchema) # Marshal(new.JsonSchema)
                THEN analyzeJsonSchemaDiff(old.JsonSchema, new.JsonSchema,
                                           ord.oldProps, ord.newProps)
                ELSE <<>>)
            \o params
            \o (IF params # <<>> THEN <<NL>> ELSE <<>>)

\* one of the two sections of diff.ParametersDetail; "无变更\n" when the
\* section has no line
ParamSection(oldList, newList, order) ==
    LET lines == ParamLines(ParamHeads, oldList, newList, order)
    IN IF lines = <<>> THEN <<"no change", NL>> ELSE lines

\* a parameters text that is written whether or not the parameters differ
ParametersDetailUnguarded(oldApi, newApi, ord) ==
    <<"[query parameter changes]", NL>>
    \o ParamSection(oldApi.Parameters.Query, newApi.Parameters.Query, ord.query)
    \o <<NL, "[path parameter changes]", NL>>
    \o ParamSection(oldApi.Parameters.Path, newApi.Parameters.Path, ord.path)

\* CompareApis, lines 158 to 290: diff.ParametersDetail
ParametersDetail(oldApi, newApi, ord) ==
    IF Marshal(oldApi.Parameters) = Marshal(newApi.Parameters) THEN <<>>
    \* "【查询参数(Query)变更】\n"
    ELSE <<"[query parameter changes]", NL>>
         \o ParamSection(oldApi.Parameters.Query, newApi.Parameters.Query, ord.query)
         \* "\n【路径参数(Path)变更】\n"
         \o <<NL, "[path parameter changes]", NL>>
         \o ParamSection(oldApi.Parameters.Path, newApi.Parameters.Path, ord.path)

\* CompareApis, lines 297 to 355: diff.ResponsesDetail
ResponsesDetail(oldApi, newApi, ord) ==
    IF Marshal(oldApi.Responses) = Marshal(newApi.Responses) THEN <<>>
    \* "【响应状态码变更】\n"
    ELSE LET loop == NewResponseLoop(ResponseMapOf(oldApi.Responses,
                                                   Len(oldApi.Responses)),
                                     newApi.Responses, Len(newApi.Responses))
         IN <<"[status code changes]", NL>>
            \o loop.text
            \o RemovedResponseLines(loop.left, ord.responses, Len(ord.responses))

\* whether analyzeJsonSchemaDiff reaches analyzePropertiesDiff
ComparesProperties(oldSchema, newSchema) ==
    /\ Marshal(oldSchema) # Marshal(newSchema)
    /\ oldSchema.kind = "map" /\ "properties" \in oldSchema.keys
    /\ newSchema.kind = "map" /\ "properties" \in newSchema.keys

\* the orders in which one call of CompareApis may range over its maps: the
\* parameters and status codes left in the old maps, and the properties of
\* the old and of the new request body schema where the call ranges over them
IterationOrders(oldApi, newApi) ==
    LET oldSchema == oldApi.RequestBody.JsonSchema
        newSchema == newApi.RequestBody.JsonSchema
    IN [bodyParams : Perms(LeftParams(oldApi.RequestBody.Parameters,
                                      newApi.RequestBody.Parameters)),
        query : Perms(LeftParams(oldApi.Parameters.Query, newApi.Parameters.Query)),
        path : Perms(LeftParams(oldApi.Parameters.Path, newApi.Parameters.Path)),
        responses : Perms(LeftResponses(oldApi.Responses, newApi.Responses)),
        oldProps : IF ComparesProperties(oldSchema, newSchema)
                   THEN Perms(DOMAIN oldSchema.properties) ELSE {<<>>},
        newProps : IF \/ ComparesProperties(oldSchema, newSchema)
                      \/ oldSchema.kind = "nil" /\ newSchema.kind = "map"
                   THEN Perms(DOMAIN newSchema.properties) ELSE {<<>>}]

\* DiffService.CompareApis: the report with its three detail texts
CompareApisDetailed(oldApi, newApi, ord) ==
    [flags |-> CompareApis(oldApi, newApi),
     RequestBodyDetail |-> RequestBodyDetail(oldApi, newApi, ord),
     ParametersDetail |-> ParametersDetail(oldApi, newApi, ord),
     ResponsesDetail |-> ResponsesDetail(oldApi, newApi, ord)]

(***************************************************************************)
(* The diff engine on its own: one entity is observed after another, and   *)
(* each observation is compared with the one before it. The comparison   *)
(* may be made again on the same two entities, with map iteration orders   *)
(* of its own.                                                             *)
(***************************************************************************)
\* Parameter, Response and RequestBody of model.go
Param(id, name, type, required) ==
    [ID |-> id, Name |-> name, Required |-> required, Description |-> "",
     Type |-> type, Enable |-> TRUE]
Response(id, code, name) ==
    [ID |-> id, Name |-> name, Code |-> code, ContentType |-> "json",
     JsonSchema |-> NilSchema, Description |-> "", Headers |-> <<>>]
RequestBodyOf(schema, params) ==
    [Type |-> "application/json", Parameters |-> params, JsonSchema |-> schema,
     MediaType |-> "", Examples |-> <<>>]

\* an entity with a request body without schema and without parameters, no
\* query or path parameters and no responses
PlainEntity ==
    [ZeroDetail EXCEPT !.ID = 1, !.Name = NameOf(1), !.Method = GET, !.Path = PUser,
                       !.RequestBody = RequestBodyOf(NilSchema, <<>>),
                       !.Parameters = [Query |-> <<>>, Path |-> <<>>],
                       !.Responses = <<>>]

ParamP == Param("1", "p", "string", FALSE)
ParamQ == Param("2", "q", "string", FALSE)
\* lists of parameters: none, one, two, p of another type and required, p
\* under another id
DiffParamLists ==
    {<<>>, <<ParamP>>, <<ParamQ>>, <<ParamP, ParamQ>>,
     <<Param("1", "p", "integer", TRUE)>>, <<Param("3", "p", "string", FALSE)>>}

\* lists of responses: none, one, two, 200 under another name, 200 under
\* another id
DiffResponseLists ==
    {<<>>, <<Response(1, 200, "ok")>>, <<Response(2, 404, "missing")>>,
     <<Response(1, 200, "ok"), Response(2, 404, "missing")>>,
     <<Response(1, 200, "done")>>, <<Response(3, 200, "ok")>>}

\* the properties maps over the fields age (string or integer) and name
DiffProps ==
    {f \in UNION {[D -> {Prop("string"), Prop("integer")}] :
                      D \in SUBSET {"age", "name"}} :
        "name" \in DOMAIN f => f["name"] = Prop("string")}

\* the required lists over the fields of a properties map
RequiredLists(props) ==
    {r \in {<<>>, <<"age">>, <<"name">>, <<"age", "name">>} :
        Range(r) \subseteq DOMAIN props}

\* request body schemas: absent, the empty object, a bare type, properties
\* with a required list
DiffSchemas ==
    {NilSchema, MapSchema({}, "", EmptyMap, <<>>),
     MapSchema({"type"}, "object", EmptyMap, <<>>),
     MapSchema({"type"}, "string", EmptyMap, <<>>)}
    \cup UNION {{MapSchema({"properties", "required"}, "", props, r) :
                    r \in RequiredLists(props)} : props \in DiffProps}

\* the entities observed: the plain entity with one of its parts replaced
DiffEntities ==
    {[PlainEntity EXCEPT !.RequestBody.JsonSchema = schema] :
        schema \in DiffSchemas}
    \cup {[PlainEntity EXCEPT !.RequestBody.Parameters = params] :
            params \in DiffParamLists}
    \cup {[PlainEntity EXCEPT !.Parameters.Query = params] :
            params \in DiffParamLists}
    \cup {[PlainEntity EXCEPT !.Parameters.Path = params] :
            params \in {<<ParamP>>, <<ParamP, ParamQ>>}}
    \cup {[PlainEntity EXCEPT !.Responses = responses] :
            responses \in DiffResponseLists}
    \cup {[PlainEntity EXCEPT !.Method = m] : m \in {get, post}}
    \cup {[PlainEntity EXCEPT !.Path = PUsers]}

\* the entity the last observation left
Observed == IF lastOp.op = "compare" THEN lastOp.new ELSE PlainEntity

\* the change of one entity is observed: CompareApis(old, new)
Compare(newApi) ==
    LET oldApi == Observed
    IN \E ord \in IterationOrders(oldApi, newApi) :
          LET report == CompareApisDetailed(oldApi, newApi, ord)
          IN /\ lastOp' = [op |-> "compare", old |-> oldApi, new |-> newApi,
                           diff |-> report, again |-> report]
             /\ UNCHANGED storeVars

\* CompareApis is called once more on the two entities of the last call
CompareAgain ==
    /\ lastOp.op = "compare"
    /\ \E ord \in IterationOrders(lastOp.old, lastOp.new) :
          lastOp' = [lastOp EXCEPT
                        !.again = CompareApisDetailed(lastOp.old, lastOp.new, ord)]
    /\ UNCHANGED storeVars

InitDiff ==
    /\ InitProgram
    /\ catalog = <<>>

NextDiff ==
    \/ \E newApi \in DiffEntities : Compare(newApi) /\ UNCHANGED restVars
    \/ CompareAgain /\ UNCHANGED restVars

SpecDiff == InitDiff /\ [][NextDiff]_vars

\* C23: diff determinism. Two calls of compare on the same two entities
\* yield the same request body text, the same parameters text and the same
\* responses text.
C23_DiffDeterminism ==
    lastOp.op = "compare"
    => /\ lastOp.again.RequestBodyDetail = lastOp.diff.RequestBodyDetail
       /\ lastOp.again.ParametersDetail = lastOp.diff.ParametersDetail
       /\ lastOp.again.ResponsesDetail = lastOp.diff.ResponsesDetail

\* the places of a text where a line starts
LineStarts(text) == {i \in 1..Len(text) : i = 1 \/ text[i - 1] = NL}

\* the category an entry line belongs to, by its head; "none" for the other
\* lines
EntryCategory(head) ==
    CASE head \in {BodyParamHeads.removed, BodyParamHeads.added,
                   BodyParamHeads.modified} -> "request body parameter"
      [] head \in {ParamHeads.removed, ParamHeads.added, ParamHeads.modified}
            -> "parameter"
      [] head \in {"- removed status code: ", "+ new status code: ",
                   "* changed status code: "} -> "response"
      [] head \in {"* removed field: ", "* new field: ", "* changed field: "}
            -> "schema property"
      [] OTHER -> "none"

\* removed entries come first, then added ones, then modified ones
EntryRank(head) ==
    CASE head \in {BodyParamHeads.removed, ParamHeads.removed,
                   "- removed status code: ", "* removed field: "} -> 1
      [] head \in {BodyParamHeads.added, ParamHeads.added, "+ new status code: ",
                   "* new field: "} -> 2
      [] OTHER -> 3

\* the place of a key in the lexicographic order of the keys of the entities
KeyRank(key) ==
    CASE key = "200" -> 1
      [] key = "404" -> 2
      [] key = "age" -> 3
      [] key = "name" -> 4
      [] key = "p" -> 5
      [] OTHER -> 6

\* the entry lines of every category of every section of a text are in the
\* order removed, added, modified, and by key within each of the three
EntriesOrdered(text) ==
    \A i, j \in LineStarts(text) :
        (/\ i < j
         /\ EntryCategory(text[i]) # "none"
         /\ EntryCategory(text[i]) = EntryCategory(text[j])
         /\ \A k \in LineStarts(text) :
               i < k /\ k < j => text[k] # "[path parameter changes]")
        => \/ EntryRank(text[i]) < EntryRank(text[j])
           \/ /\ EntryRank(text[i]) = EntryRank(text[j])
              /\ KeyRank(text[i + 1]) <= KeyRank(text[j + 1])

\* C24: diff line ordering. In every text of a report, within each category
\* (request body parameters, query parameters, path parameters, responses,
\* schema properties), all removed entries come first, then all added ones,
\* then all modified ones, each group in lexicographic order of the keys.
C24_DiffLineOrdering ==
    lastOp.op = "compare"
    => /\ EntriesOrdered(lastOp.diff.RequestBodyDetail)
       /\ EntriesOrdered(lastOp.diff.ParametersDetail)
       /\ EntriesOrdered(lastOp.diff.ResponsesDetail)

\* C25: diff idempotence. Comparing an entity with itself yields a report
\* whose five flags are all false and whose three texts are all empty.
C25_DiffIdempotence ==
    (lastOp.op = "compare" /\ lastOp.old = lastOp.new)
    => /\ ~lastOp.diff.flags.MethodDiff
       /\ ~lastOp.diff.flags.PathDiff
       /\ ~lastOp.diff.flags.RequestBodyDiff
       /\ ~lastOp.diff.flags.ParametersDiff
       /\ ~lastOp.diff.flags.ResponsesDiff
       /\ ~HasDiff(lastOp.diff.flags)
       /\ lastOp.diff.RequestBodyDetail = <<>>
       /\ lastOp.diff.ParametersDetail = <<>>
       /\ lastOp.diff.ResponsesDetail = <<>>

\* an entity with a request body schema of two properties, one of them
\* required, has been compared with itself
C25_Witness ==
    /\ lastOp.op = "compare"
    /\ lastOp.old = lastOp.new
    /\ lastOp.new.RequestBody.JsonSchema.kind = "map"
    /\ DOMAIN lastOp.new.RequestBody.JsonSchema.properties = {"age", "name"}
    /\ lastOp.new.RequestBody.JsonSchema.required = <<"age">>

\* C26: diff flags. The request body flag, the parameters flag and the
\* responses flag are true exactly when the old and the new sub-structure
\* differ in what is serialised of them, whether or not the text renders a
\* line for the difference; the path flag is true exactly when the paths
\* differ, and the method flag exactly when the methods differ once both are
\* put in lower case.
C26_DiffFlags ==
    lastOp.op = "compare"
    => /\ lastOp.diff.flags.RequestBodyDiff
             = (lastOp.old.RequestBody # lastOp.new.RequestBody)
       /\ lastOp.diff.flags.ParametersDiff
             = (lastOp.old.Parameters # lastOp.new.Parameters)
       /\ lastOp.diff.flags.ResponsesDiff
             = (lastOp.old.Responses # lastOp.new.Responses)
       /\ lastOp.diff.flags.PathDiff = (lastOp.old.Path # lastOp.new.Path)
       /\ lastOp.diff.flags.MethodDiff
             = (ToLower(lastOp.old.Method) # ToLower(lastOp.new.Method))

\* the query parameter p has changed its id and nothing else: the
\* parameters flag is raised and both sections of the text say "no change"
C26_Witness ==
    /\ lastOp.op = "compare"
    /\ lastOp.old.Parameters.Query = <<ParamP>>
    /\ lastOp.new.Parameters.Query = <<[ParamP EXCEPT !.ID = "3"]>>
    /\ lastOp.diff.flags.ParametersDiff
    /\ lastOp.diff.ParametersDetail
          = <<"[query parameter changes]", NL, "no change", NL,
              NL, "[path parameter changes]", NL, "no change", NL>>

\* the lines of a text that start with the given head
LinesWithHead(text, head) == {i \in LineStarts(text) : text[i] = head}

\* a text has exactly one line with the given head for every key of the
\* set, and no other line with that head
OneLinePerKey(text, head, keys) ==
    /\ {text[i + 1] : i \in LinesWithHead(text, head)} = keys
    /\ Cardinality(LinesWithHead(text, head)) = Cardinality(keys)

\* C27: absent schema. When exactly one of the two request body schemas is
\* null, the request body text has one field line for every top-level
\* property of the schema that is present (a new-field line when the old
\* schema is null, a removed-field line when the new one is) and no single
\* line standing for the whole schema; when both are null the text has no
\* schema line at all.
C27_AbsentSchema ==
    lastOp.op = "compare"
    => LET oldSchema == lastOp.old.RequestBody.JsonSchema
           newSchema == lastOp.new.RequestBody.JsonSchema
           text == lastOp.diff.RequestBodyDetail
       IN /\ (oldSchema.kind = "nil" /\ newSchema.kind = "map")
                => /\ OneLinePerKey(text, "* new field: ",
                                    DOMAIN newSchema.properties)
                   /\ LinesWithHead(text, "* removed field: ") = {}
          /\ (oldSchema.kind = "map" /\ newSchema.kind = "nil")
                => /\ OneLinePerKey(text, "* removed field: ",
                                    DOMAIN oldSchema.properties)
                   /\ LinesWithHead(text, "* new field: ") = {}
                   /\ LinesWithHead(text, "* request body schema removed") = {}
          /\ (oldSchema.kind = "nil" /\ newSchema.kind = "nil")
                => \A i \in LineStarts(text) :
                      /\ EntryCategory(text[i]) # "schema property"
                      /\ text[i] \notin {"* request body schema removed",
                                         "* required fields:", "* data type: ",
                                         "* required changes:",
                                         "* request body is of type "}

\* the line that starts at place i of a text holds the given piece
LineHolds(text, i, piece) ==
    \E k \in i..Len(text) :
        /\ text[k] = piece
        /\ \A m \in i..(k - 1) : text[m] # NL

\* the schemas of scenario C: the empty object, and an object with the
\* integer property age, which is required
EmptyObjectSchema == MapSchema({}, "", EmptyMap, <<>>)
RequiredAgeSchema ==
    MapSchema({"properties", "required"}, "", [n \in {"age"} |-> Prop("integer")],
              <<"age">>)

\* C28: scenario C. Comparing an entity whose request body schema is {} with
\* one whose request body schema is {properties: {age: {type: "integer"}},
\* required: ["age"]} raises the request body flag, and the request body
\* text has a line that marks age as new and as required.
C28_ScenarioC ==
    (/\ lastOp.op = "compare"
     /\ lastOp.old.RequestBody.JsonSchema = EmptyObjectSchema
     /\ lastOp.new.RequestBody.JsonSchema = RequiredAgeSchema)
    => /\ lastOp.diff.flags.RequestBodyDiff
       /\ \E i \in LinesWithHead(lastOp.diff.RequestBodyDetail, "* new field: ") :
             /\ lastOp.diff.RequestBodyDetail[i + 1] = "age"
             /\ LineHolds(lastOp.diff.RequestBodyDetail, i, " (required)")

\* the modified entry of a field in a text holds a line on its required
\* state
EntryTellsRequired(text, field) ==
    \E i \in LinesWithHead(text, "* changed field: ") :
        /\ text[i + 1] = field
        /\ \E j \in LineStarts(text) :
              /\ i < j
              /\ text[j] \in {"  - now required", "  - now optional"}
              /\ \A k \in LineStarts(text) :
                    i < k /\ k < j
                    => text[k] \in {"  - type: ", "  - title: ", "  - description: "}

\* the lines of a text that tell, apart from any entry, that a field has
\* entered or left the required list
RequiredChangedLines(text, field) ==
    {i \in LinesWithHead(text, "  + now required: ")
           \cup LinesWithHead(text, "  - no longer required: ") :
        text[i + 1] = field}

\* C29: a required change is reported once. When a property of both the old
\* and the new request body schema changes its type and its membership of
\* the required list, the change of its required state is told in the
\* modified entry of the field, and no separate required-changed line names
\* the field.
C29_RequiredChangeReportedOnce ==
    lastOp.op = "compare"
    => LET oldSchema == lastOp.old.RequestBody.JsonSchema
           newSchema == lastOp.new.RequestBody.JsonSchema
           text == lastOp.diff.RequestBodyDetail
       IN \A field \in DOMAIN oldSchema.properties \cap DOMAIN newSchema.properties :
             (/\ oldSchema.properties[field].type # newSchema.properties[field].type
              /\ contains(oldSchema.required, field)
                    # contains(newSchema.required, field))
             => /\ EntryTellsRequired(text, field)
                /\ RequiredChangedLines(text, field) = {}

\* C30: required-change suppression. A line telling that a field has
\* entered or left the required list is written only for a field that is a
\* property of both the old and the new schema: a field that is added or
\* removed gets no such line.
C30_RequiredChangeSuppression ==
    lastOp.op = "compare"
    => LET oldSchema == lastOp.old.RequestBody.JsonSchema
           newSchema == lastOp.new.RequestBody.JsonSchema
           text == lastOp.diff.RequestBodyDetail
       IN \A i \in LinesWithHead(text, "  + now required: ")
                   \cup LinesWithHead(text, "  - no longer required: ") :
             /\ text[i + 1] \in DOMAIN oldSchema.properties
             /\ text[i + 1] \in DOMAIN newSchema.properties

\* name, a property of both schemas, and age, a property of the new schema
\* alone, have both entered the required list: the text has a line for name
\* and none for age
C30_Witness ==
    /\ lastOp.op = "compare"
    /\ DOMAIN lastOp.old.RequestBody.JsonSchema.properties = {"name"}
    /\ DOMAIN lastOp.new.RequestBody.JsonSchema.properties = {"age", "name"}
    /\ lastOp.old.RequestBody.JsonSchema.required = <<>>
    /\ lastOp.new.RequestBody.JsonSchema.required = <<"age", "name">>
    /\ RequiredChangedLines(lastOp.diff.RequestBodyDetail, "name") # {}
    /\ RequiredChangedLines(lastOp.diff.RequestBodyDetail, "age") = {}
    /\ LinesWithHead(lastOp.diff.RequestBodyDetail, "* new field: ") # {}

(***************************************************************************)
(* Signal parsing on its own: ParseWebhookContent, ExtractMethodFromPath   *)
(* and ExtractNameTimeFromContent applied to contents of a few lines       *)
(***************************************************************************)
\* the labels that open the modifier line and the time line; the source has
\* "修改者：" and "修改时间："
ModifierLabel == <<"[modifier]">>
TimeLabel == <<"[time]">>

\* ExtractNameTimeFromContent, the loop over the lines
RECURSIVE NameTimeLines(_, _, _)
NameTimeLines(lines, name, timeStr) ==
    IF lines = <<>> THEN [name |-> name, timeStr |-> timeStr]
    ELSE LET line == TrimSpace(Head(lines))
         IN IF HasPrefix(line, ModifierLabel)
            THEN NameTimeLines(Tail(lines), TrimPrefix(line, ModifierLabel), timeStr)
            ELSE IF HasPrefix(line, TimeLabel)
            THEN NameTimeLines(Tail(lines), name, TrimPrefix(line, TimeLabel))
            ELSE NameTimeLines(Tail(lines), name, timeStr)

\* dingtalk.ExtractNameTimeFromContent
ExtractNameTimeFromContent(content) == NameTimeLines(content, Empty, Empty)

\* the longest content parsed, in lines
MaxLines == 3

\* the lines of a content: two name lines, path lines (one indented, one
\* with a space after the label), two modifier lines, two time lines, and a
\* line without label
ParseLineSet ==
    {NameLabel \o NameOf(1), NameLabel \o NameOf(2),
     PathLabel \o GET \o <<SP>> \o PUser,
     <<SP>> \o PathLabel \o post \o <<SP>> \o PUsers,
     PathLabel \o <<SP>> \o GET \o <<SP>> \o PUser,
     ModifierLabel \o <<"a">>, ModifierLabel \o <<"b">>,
     TimeLabel \o <<"1">>, TimeLabel \o <<"2">>,
     <<"x">>}

ParseContents == UNION {[1..n -> ParseLineSet] : n \in 0..MaxLines}

\* a content that has arrived and is not parsed yet
ArrivedOp(content) == [op |-> "arrived", content |-> content]

\* the first lines of HandleWebhook on a content: what the three functions
\* return
ParseOp(content) ==
    LET parsed == ParseWebhookContent(content)
    IN [op |-> "parse", content |-> content, parsed |-> parsed,
        method |-> IF parsed.err THEN Empty ELSE ExtractMethodFromPath(parsed.apiPath),
        who |-> ExtractNameTimeFromContent(content)]

Parse ==
    /\ lastOp.op = "arrived"
    /\ lastOp' = ParseOp(lastOp.content)
    /\ UNCHANGED storeVars

InitParse ==
    /\ apisByKey = EmptyMap
    /\ apisByPath = EmptyMap
    /\ lastOp \in {ArrivedOp(content) : content \in ParseContents}
    /\ isSyncRunning = FALSE
    /\ stopSync = 0
    /\ closed = {}
    /\ loops = <<>>
    /\ sweeps = <<>>
    /\ panicked = FALSE
    /\ hooks = <<>>
    /\ sent = <<>>
    /\ fetched = EmptyMap
    /\ edits = 0
    /\ catalog = <<>>

NextParse == Parse /\ UNCHANGED restVars

SpecParse == InitParse /\ [][NextParse]_vars

\* the value of the first line of a content that starts with a label, the
\* empty string when no line does
RECURSIVE FirstValue(_, _)
FirstValue(lines, label) ==
    IF lines = <<>> THEN Empty
    ELSE IF HasPrefix(TrimSpace(Head(lines)), label)
         THEN TrimPrefix(TrimSpace(Head(lines)), label)
         ELSE FirstValue(Tail(lines), label)

\* the first token of a string that whitespace delimits
RECURSIVE FirstToken(_)
FirstToken(str) ==
    IF str = <<>> THEN Empty
    ELSE IF Head(str) = SP
         THEN (IF TrimSpace(str) = str THEN Empty ELSE FirstToken(TrimSpace(str)))
         ELSE <<Head(str)>> \o (IF Tail(str) = <<>> \/ Head(Tail(str)) = SP
                                THEN Empty ELSE FirstToken(Tail(str)))

\* C31: signal parsing. The name, the path, the modifier and the time of a
\* content are each the value of the first line that starts with the label,
\* also when a later line starts with the same label, and the method is the
\* first token of the path value that whitespace delimits, in lower case.
C31_SignalParsing ==
    lastOp.op = "parse"
    => /\ lastOp.who.name = FirstValue(lastOp.content, ModifierLabel)
       /\ lastOp.who.timeStr = FirstValue(lastOp.content, TimeLabel)
       /\ ~lastOp.parsed.err
             => /\ lastOp.parsed.apiName = FirstValue(lastOp.content, NameLabel)
                /\ lastOp.parsed.apiPath = FirstValue(lastOp.content, PathLabel)
                /\ lastOp.method = ToLower(FirstToken(lastOp.parsed.apiPath))

(***************************************************************************)
(* A signal and a sweep at once: every entity of the catalog has changed   *)
(* its request body since its snapshot was stored; the ticker fires, and   *)
(* update signals for the entities arrive while the sweep runs             *)
(***************************************************************************)
\* the update signal for entity i of the catalog
RaceSignal(i) ==
    <<NameLabel \o ResweepCatalog[i].Name,
      PathLabel \o ResweepCatalog[i].Method \o <<SP>> \o ResweepCatalog[i].Path>>

InitRace ==
    /\ LET seen == [i \in 1..NumResweepItems |-> "old"]
       IN /\ apisByKey = EarlierStore(seen, NumResweepItems).byKey
          /\ apisByPath = EarlierStore(seen, NumResweepItems).byPath
    /\ lastOp = NoOp
    /\ isSyncRunning = TRUE
    /\ stopSync = 1
    /\ closed = {}
    /\ loops = <<[NewLoop EXCEPT !.pc = "sweep", !.ch = 1]>>
    /\ sweeps = <<[NoSweep EXCEPT !.pc = "list"]>>
    /\ panicked = FALSE
    /\ hooks = <<>>
    /\ sent = <<>>
    /\ fetched = EmptyMap
    /\ edits = 0
    /\ catalog = ResweepCatalog

NextRace ==
    \/ SweepList(1, "ok") /\ UNCHANGED aroundSweep
    \/ \E i \in DOMAIN catalog : TaskAcquire(1, i) /\ UNCHANGED aroundSweep
    \/ \E i \in DOMAIN catalog : TaskFetchNoted(1, i, "ok") /\ UNCHANGED aroundTask
    \/ \E i \in DOMAIN catalog : TaskStore(1, i) /\ UNCHANGED aroundSweep
    \/ SweepReturn(1) /\ UNCHANGED aroundSweep
    \/ \E i \in DOMAIN catalog :
          /\ Len(hooks) < MaxHooks
          /\ HookReceive("API_UPDATED", RaceSignal(i))
          /\ UNCHANGED aroundHook
    \/ \E h \in DOMAIN hooks, o \in {"ok", "err"} :
          HookMappings(h, o) /\ UNCHANGED aroundHook
    \/ \E h \in DOMAIN hooks, o \in {"ok", "err"} :
          HookDetail(h, o) /\ UNCHANGED aroundHook
    \/ \E h \in DOMAIN hooks, o \in {"ok", "fail"} :
          HookNotify(h, o) /\ UNCHANGED aroundHook

SpecRace == InitRace /\ [][NextRace]_vars

\* C32: no lost change under a concurrent sweep. When the handler of an
\* update signal answers success for an entity whose owner is the configured
\* one, a change notification for that entity that reports the changed
\* request body has been sent, however the steps of the handler and of the
\* sweep that fetches and stores the same entity are interleaved.
C32_NoLostChange ==
    [][\A h \in DOMAIN hooks :
          LET id == IdOfKey(hooks[h].apiKey)
          IN (/\ hooks[h].pc \in {"detail", "notify"}
              /\ hooks'[h].pc = "done"
              /\ hooks'[h].status = 200
              /\ ~OwnerMismatch(DetailOf(id, catalog[id])))
             => \E k \in DOMAIN sent' :
                   /\ sent'[k].kind = "changed"
                   /\ sent'[k].diff.ApiID = id
                   /\ sent'[k].diff.RequestBodyDiff]_vars


(***************************************************************************)
(* stop() followed by start(): the timer loop of the first start() beside  *)
(* the timer loop of the second                                            *)
(***************************************************************************)
\* one start() more than SpecSync allows
RestartLoops == MaxStarts + 1

RestartIds == 1..RestartLoops

InitRestart ==
    /\ InitProgram
    /\ catalog = <<EntityShape(1)>>

NextRestart ==
    \/ StartSyncWithin(RestartLoops) /\ UNCHANGED storeAndEnv
    \/ StopSync /\ UNCHANGED storeAndEnv
    \/ \E l \in DOMAIN loops : LoopBegin(l) /\ UNCHANGED storeAndEnv
    \/ \E l \in DOMAIN loops, ch \in RestartIds :
          LoopEnterSelect(l, ch) /\ UNCHANGED storeAndEnv
    \/ \E l \in DOMAIN loops : LoopSelectTick(l) /\ UNCHANGED storeAndEnv
    \/ \E l \in DOMAIN loops : LoopSelectStop(l) /\ UNCHANGED storeAndEnv
    \/ \E l \in DOMAIN loops, o \in {"ok", "err"} :
          SweepList(l, o) /\ UNCHANGED aroundSweep
    \/ \E l \in DOMAIN loops, i \in DOMAIN catalog :
          TaskAcquire(l, i) /\ UNCHANGED aroundSweep
    \/ \E l \in DOMAIN loops, i \in DOMAIN catalog :
          TaskFetch(l, i, "ok") /\ UNCHANGED aroundSweep
    \/ \E l \in DOMAIN loops, i \in DOMAIN catalog :
          TaskStore(l, i) /\ UNCHANGED aroundSweep
    \/ \E l \in DOMAIN loops : SweepReturn(l) /\ UNCHANGED aroundSweep

SpecRestart == InitRestart /\ [][NextRestart]_vars

\* a timer loop that the stop() calls made so far do not end: it has not
\* exited, and the channel it waits on (or, before its select, its own
\* channel) is open
KeepsRunning(l) ==
    /\ loops[l].pc # "exited"
    /\ IF loops[l].pc = "select" THEN loops[l].ch \notin closed
                                 ELSE l \notin closed

\* C33: every timer loop is stopped by the stop() that follows its start():
\* when stop() is followed by start() while the old loop is still in a sweep,
\* the old loop still observes the cancellation, so that at most one timer
\* loop keeps running.
C33_StopReachesItsLoop ==
    Cardinality({l \in DOMAIN loops : KeepsRunning(l)}) <= 1

\* a call of SyncAllAPIs that has not returned
Sweeping(l) == sweeps[l].pc \in {"list", "run"}

\* C34: sweeps of one orchestrator never overlap: under any interleaving of
\* start(), stop(), ticks and sweeps longer than the interval, at most one
\* call of SyncAllAPIs is executing.
C34_SweepsNeverOverlap ==
    Cardinality({l \in DOMAIN sweeps : Sweeping(l)}) <= 1


(***************************************************************************)
(* The two indices of the store against each other                         *)
(***************************************************************************)
\* C35: the path index is complete across entities. After any sequence of
\* puts, every Snapshot of the key index whose path is not empty is found by
\* getByPath with its method and path: a put that changes one entity's
\* method or path never removes the path entry another entity relies on.
C35_PathIndexComplete ==
    \A k \in DOMAIN apisByKey :
        apisByKey[k].ApiPath # Empty
        => GetApiByPath(apisByPath, apisByKey[k].Method, apisByKey[k].ApiPath).found


\* puts of snapshots that differ in what was fetched as well as in method and
\* path
IndexRoutes == {<<get, Empty>>, <<get, PUser>>, <<get, PUsers>>, <<post, PUser>>}
IndexBodies == {"rb0", "rb1"}

IndexInputs ==
    {[ApiKey |-> ApiKeyOf(i), ApiID |-> i, Name |-> NameOf(i), Method |-> r[1],
      ApiPath |-> r[2],
      Detail |-> [ZeroDetail EXCEPT !.ID = i, !.Name = NameOf(i), !.Method = r[1],
                                    !.Path = r[2], !.RequestBody = b]] :
        i \in 1..NumStoreKeys, r \in IndexRoutes, b \in IndexBodies}

NextIndex ==
    \/ \E a \in IndexInputs : Put(a) /\ UNCHANGED restVars
    \/ ClearAll /\ UNCHANGED restVars

SpecIndex == InitStore /\ [][NextIndex]_vars

\* C36: the two indices agree. Every entry of the path index, under path key
\* p, is identical to the entry of the key index under the same stable key,
\* and '<method> <path>' of that entry is p; no stable key stands under more
\* than one path key.
C36_IndexAgreement ==
    /\ \A p \in DOMAIN apisByPath :
          /\ GetApi(apisByKey, apisByPath[p].ApiKey) = Found(apisByPath[p])
          /\ Sprintf2(apisByPath[p].Method, apisByPath[p].ApiPath) = p
    /\ \A p, q \in DOMAIN apisByPath :
          apisByPath[p].ApiKey = apisByPath[q].ApiKey => p = q

\* a put has moved a snapshot to another path key while a second stable key
\* has its own entry in the path index
C36_Witness ==
    /\ lastOp.op = "put"
    /\ lastOp.prev.found
    /\ lastOp.prev.api.ApiPath # Empty
    /\ lastOp.arg.ApiPath # Empty
    /\ lastOp.prev.api.Method # lastOp.arg.Method
    /\ lastOp.prev.api.Detail.RequestBody # lastOp.arg.Detail.RequestBody
    /\ Cardinality(DOMAIN apisByPath) = 2
    /\ \E p \in DOMAIN apisByPath : apisByPath[p].ApiKey # lastOp.arg.ApiKey


(***************************************************************************)
(* Webhook requests over a catalog the store has seen in part: entity 1    *)
(* has been moved from /user to /users and entity 2 created at /user       *)
(***************************************************************************)
LiveCatalogs ==
    {<<[EntityShape(1) EXCEPT !.Path = PUsers],
       [EntityShape(2) EXCEPT !.Path = PUser, !.ResponsibleID = o]>> :
        o \in {ConfigResponsibleId, OtherResponsibleId}}

\* the catalog as InitializeApiList found it: entity 1 alone, at /user
BeforeCatalog == <<[EntityShape(1) EXCEPT !.Path = PUser]>>

PNone == <<"/", "n", "o", "n", "e">>

LiveSignalContents ==
    {<<NameLabel \o NameOf(2), SigPath(GET, PUser)>>,
     <<NameLabel \o NameOf(1), SigPath(GET, PUsers)>>,
     <<NameLabel \o NameOf(1), SigPath(GET, PNone)>>,
     <<NameLabel \o NameOf(2), SigPath(get, PUser)>>}

InitLive ==
    /\ catalog \in LiveCatalogs
    /\ \E s \in {InitializeApiList(BeforeCatalog, "err", <<"ok">>),
                 InitializeApiList(BeforeCatalog, "ok", <<"ok">>),
                 InitializeApiList(catalog, "ok", <<"ok", "ok">>)} :
          apisByKey = s.byKey /\ apisByPath = s.byPath
    /\ lastOp = NoOp
    /\ isSyncRunning = TRUE
    /\ stopSync = 1
    /\ closed = {}
    /\ loops = <<NewLoop>>
    /\ sweeps = <<NoSweep>>
    /\ panicked = FALSE
    /\ hooks = <<>>
    /\ sent = <<>>
    /\ fetched = EmptyMap
    /\ edits = 0

NextLive ==
    \/ \E e \in SignalEvents, c \in LiveSignalContents :
          Len(hooks) < MaxHooks /\ HookReceive(e, c) /\ UNCHANGED aroundHook
    \/ \E h \in DOMAIN hooks, o \in {"ok", "err"} :
          HookMappings(h, o) /\ UNCHANGED aroundHook
    \/ \E h \in DOMAIN hooks, o \in {"ok", "err"} :
          HookDetail(h, o) /\ UNCHANGED aroundHook
    \/ \E h \in DOMAIN hooks, o \in {"ok", "fail"} :
          HookNotify(h, o) /\ UNCHANGED aroundHook

SpecLive == InitLive /\ [][NextLive]_vars

\* C37: the live identity wins. When the method and path of the signal are in
\* the live mapping, the handler goes on under the stable key apiDetail.<id>
\* of the live mapping's id, fetches the detail by that key and stores it
\* under that key, whatever stable key the path index holds for the same
\* method and path; it takes a stable key from the store only when the live
\* mapping has no such method and path.
C37_LiveIdentityWins ==
    /\ [][\A h \in DOMAIN hooks :
             (hooks[h].pc = "mappings" /\ hooks'[h].pc = "detail")
             => LET key == SignalPathKey(hooks[h].apiPath)
                    live == ApiMappings(catalog)
                IN IF key \in DOMAIN live
                   THEN /\ hooks'[h].branch = "live"
                        /\ hooks'[h].apiKey = ApiKeyOf(live[key].ID)
                   ELSE hooks'[h].branch = "fallback"]_vars
    /\ [][\A h \in DOMAIN hooks :
             LET key == SignalPathKey(hooks[h].apiPath)
                 live == ApiMappings(catalog)
             IN (/\ hooks[h].pc = "detail"
                 /\ hooks'[h] # hooks[h]
                 /\ hooks'[h].status # 500
                 /\ key \in DOMAIN live)
                => LET id == live[key].ID
                   IN /\ DOMAIN fetched' \ DOMAIN fetched \subseteq {id}
                      /\ id \in DOMAIN fetched'
                      /\ fetched'[id].last = DetailOf(id, catalog[id])
                      /\ \A k \in DOMAIN apisByKey' :
                            apisByKey'[k] # MapGet(apisByKey, k).api
                            => k = ApiKeyOf(id)]_vars

\* the handler goes on under the stable key of entity 2, which the live
\* mapping holds for GET /user, while the path index still holds the
\* snapshot of entity 1 under 'get /user'
C37_Witness ==
    \E h \in DOMAIN hooks :
        /\ hooks[h].pc = "detail"
        /\ hooks[h].branch = "live"
        /\ hooks[h].apiKey = ApiKeyOf(2)
        /\ SignalPathKey(hooks[h].apiPath) \in DOMAIN apisByPath
        /\ apisByPath[SignalPathKey(hooks[h].apiPath)].ApiKey = ApiKeyOf(1)


\* C38: first observation through a signal. When the signal resolves through
\* the live mapping, the store has no snapshot of the entity (neither under
\* its stable key nor under the path key of the signal) and the owner of the
\* fetched detail is the configured one, the handler calls the notifier with
\* a creation notification if and only if the event is API_CREATED; for
\* API_UPDATED it stores the entity and answers without a notification. A
\* change notification is never sent for such a signal.
C38_FirstObservation ==
    /\ [][\A h \in DOMAIN hooks :
             (/\ hooks[h].pc = "mappings"
              /\ hooks'[h].pc = "detail"
              /\ hooks'[h].branch = "live"
              /\ ~GetApi(apisByKey, hooks'[h].apiKey).found
              /\ SignalPathKey(hooks[h].apiPath) \notin DOMAIN apisByPath)
             => ~hooks'[h].old.found]_vars
    /\ [][\A h \in DOMAIN hooks :
             LET id == IdOfKey(hooks[h].apiKey)
             IN (/\ hooks[h].pc = "detail"
                 /\ hooks[h].branch = "live"
                 /\ ~hooks[h].old.found
                 /\ hooks'[h] # hooks[h]
                 /\ hooks'[h].status # 500
                 /\ ~OwnerMismatch(fetched'[id].last))
                => /\ sent' = sent
                   /\ IF hooks[h].event = "API_CREATED"
                      THEN hooks'[h].pc = "notify"
                      ELSE /\ hooks'[h] = HookDone(200)
                           /\ GetApi(apisByKey', hooks[h].apiKey).found
                           /\ GetApi(apisByKey', hooks[h].apiKey).api.Detail
                              = fetched'[id].last]_vars
    /\ [][\A h \in DOMAIN hooks :
             (/\ hooks[h].pc = "notify"
              /\ ~hooks[h].old.found
              /\ hooks'[h] # hooks[h])
             => /\ hooks[h].event = "API_CREATED"
                /\ \/ hooks'[h].status = 500 /\ sent' = sent
                   \/ /\ hooks'[h].status = 200
                      /\ sent' = Append(sent, [kind |-> "created",
                                               diff |-> CreatedDiff(hooks[h])])
                      /\ GetApi(apisByKey', hooks[h].apiKey).found]_vars

\* the store was empty, the API_CREATED signal of entity 2 has been answered
\* 200, the creation notification has been sent and the entity is stored
C38_Witness ==
    /\ ApiKeyOf(1) \notin DOMAIN apisByKey
    /\ GetApi(apisByKey, ApiKeyOf(2)).found
    /\ Len(sent) = 1
    /\ sent[1].kind = "created"
    /\ sent[1].diff.ApiID = 2
    /\ \E h \in DOMAIN hooks : hooks[h] = HookDone(200)


(***************************************************************************)
(* The running service when the catalog cannot be listed: the timer loop,  *)
(* its sweeps and webhook requests over a catalog of one entity            *)
(***************************************************************************)
ListedCatalog == <<[EntityShape(1) EXCEPT !.Path = PUser]>>

InitTransient ==
    /\ catalog = ListedCatalog
    /\ \E listed \in {"ok", "err"} :
          LET s == InitializeApiList(catalog, listed, <<"ok">>)
          IN apisByKey = s.byKey /\ apisByPath = s.byPath
    /\ lastOp = NoOp
    /\ isSyncRunning = TRUE
    /\ stopSync = 1
    /\ closed = {}
    /\ loops = <<NewLoop>>
    /\ sweeps = <<NoSweep>>
    /\ panicked = FALSE
    /\ hooks = <<>>
    /\ sent = <<>>
    /\ fetched = EmptyMap
    /\ edits = 0

NextTransient ==
    \/ LoopBegin(1) /\ UNCHANGED aroundLoop
    \/ LoopEnterSelect(1, 1) /\ UNCHANGED aroundLoop
    \/ LoopSelectTick(1) /\ UNCHANGED aroundLoop
    \/ \E o \in {"ok", "err"} : SweepList(1, o) /\ UNCHANGED aroundSweep
    \/ \E i \in DOMAIN catalog : TaskAcquire(1, i) /\ UNCHANGED aroundSweep
    \/ \E i \in DOMAIN catalog : TaskFetchNoted(1, i, "ok") /\ UNCHANGED aroundTask
    \/ \E i \in DOMAIN catalog : TaskStore(1, i) /\ UNCHANGED aroundSweep
    \/ SweepReturn(1) /\ UNCHANGED aroundSweep
    \/ \E e \in {"API_UPDATED", "API_CREATED"} :
          /\ Len(hooks) < MaxHooks
          /\ HookReceive(e, <<SigName, SigPath(GET, PUser)>>)
          /\ UNCHANGED aroundHook
    \/ \E h \in DOMAIN hooks, o \in {"ok", "err"} :
          HookMappings(h, o) /\ UNCHANGED aroundHook
    \/ \E h \in DOMAIN hooks, o \in {"ok", "err"} :
          HookDetail(h, o) /\ UNCHANGED aroundHook
    \/ \E h \in DOMAIN hooks, o \in {"ok", "fail"} :
          HookNotify(h, o) /\ UNCHANGED aroundHook

SpecTransient == InitTransient /\ [][NextTransient]_vars

\* the timer loop is scheduled when its sweep has returned, and its ticker
\* fires while it waits in its select
LoopTurns ==
    \/ LoopEnterSelect(1, 1) /\ UNCHANGED aroundLoop
    \/ LoopSelectTick(1) /\ UNCHANGED aroundLoop

FairTransient == SpecTransient /\ WF_vars(LoopTurns)

\* a sweep has returned from a tree list call that failed
ListingFailed(l) == sweeps[l].pc = "returned" /\ sweeps[l].items = <<>>

\* C39: a listing failure is transient. A sweep whose tree list call fails or
\* reports non-success launches no fetch task and leaves the store as it was,
\* and its timer loop stays alive: the next tick starts another sweep. A
\* handler whose fetch of the live mapping fails answers with a server error
\* and leaves the store as it was.
C39_ListingFailureIsTransient ==
    /\ [][(sweeps[1].pc = "list" /\ sweeps'[1].pc = "returned")
          => /\ sweeps'[1].task = <<>>
             /\ sweeps'[1].counts = ZeroCounts
             /\ loops'[1].pc = "sweep"
             /\ UNCHANGED <<apisByKey, apisByPath, fetched, sent>>]_vars
    /\ [](ListingFailed(1)
          => /\ loops[1].pc = "sweep"
             /\ \A i \in DOMAIN catalog : ApiKeyOf(i) \notin DOMAIN sweeps[1].currentApis)
    /\ (ListingFailed(1) ~> sweeps[1].pc = "list")
    /\ [][\A h \in DOMAIN hooks :
             (hooks[h].pc = "mappings" /\ hooks'[h].pc \notin {"mappings", "detail"})
             => /\ hooks'[h] = HookDone(500)
                /\ UNCHANGED <<apisByKey, apisByPath, fetched, sent>>]_vars

\* the tree list call of a sweep failed and a handler could not fetch the
\* live mapping: the store still holds the snapshot of the start
C39_Witness ==
    /\ ListingFailed(1)
    /\ GetApi(apisByKey, ApiKeyOf(1)).found
    /\ fetched = EmptyMap
    /\ \E h \in DOMAIN hooks : hooks[h] = HookDone(500)


(***************************************************************************)
(* The counters of a sweep                                                 *)
(***************************************************************************)
\* the tasks of sweep sw that ended as c
EndedAs(sw, c) == {i \in DOMAIN sw.out : sw.out[i] = c}

\* C40: sweep accounting. When a sweep that listed the catalog completes,
\* every fetch task it launched has finished and has incremented exactly one
\* of the four counters, so that updated + unchanged + new + error is the
\* number of valid entities listed; a task counts 'new' iff the store held no
\* snapshot under the entity's stable key, 'updated' iff it held one and the
\* comparison with the fetched detail raises a flag, 'unchanged' otherwise.
C40_SweepAccounting ==
    /\ [](sweeps[1].pc = "returned" /\ sweeps[1].items # <<>>
          => LET sw == sweeps[1]
             IN /\ DOMAIN sw.task = 1..Len(ValidApiItems(ExtractApiItems(TreeOf(catalog))))
                /\ \A i \in DOMAIN sw.task :
                      /\ sw.task[i] = "done"
                      /\ sw.out[i] \in {"updated", "unchanged", "new", "error"}
                /\ \A c \in {"updated", "unchanged", "new", "error"} :
                      sw.counts[c] = Cardinality(EndedAs(sw, c))
                /\ sw.counts.updated + sw.counts.unchanged + sw.counts.new
                      + sw.counts.error
                   = Len(ValidApiItems(ExtractApiItems(TreeOf(catalog)))))
    /\ [][\A i \in DOMAIN sweeps[1].task :
             (sweeps[1].task[i] # "done" /\ sweeps'[1].task[i] = "done")
             => LET old == GetApi(apisByKey, sweeps[1].items[i].Key)
                    c == sweeps'[1].out[i]
                    Sum(n) == n.updated + n.unchanged + n.new + n.error
                IN /\ Sum(sweeps'[1].counts) = Sum(sweeps[1].counts) + 1
                   /\ sweeps'[1].counts[c] = sweeps[1].counts[c] + 1
                   /\ c # "error"
                      => /\ c = "new" <=> ~old.found
                         /\ c = "updated"
                            <=> /\ old.found
                                /\ HasDiff(CompareApis(old.api.Detail,
                                                      sweeps[1].resp[i]))
                         /\ c = "unchanged"
                            <=> /\ old.found
                                /\ ~HasDiff(CompareApis(old.api.Detail,
                                                       sweeps[1].resp[i]))]_vars

\* a sweep has returned with a new, an updated and a failed entity counted
C40_Witness ==
    /\ sweeps[1].pc = "returned"
    /\ sweeps[1].counts = [updated |-> 1, unchanged |-> 0, new |-> 1, error |-> 1]

====
